---- MODULE Spec2Model ----
(***************************************************************************)
(* Model of the YouTube Shorts pipeline: the remote-job poll loops of      *)
(* SunoClient.generate_music and RunwayClient.generate_video_from_text,    *)
(* the duration reconciliation of MusicGenerator.adjust_music_duration     *)
(* and the stage sequence of YouTubeShortsCreator.create_short.            *)
(*                                                                         *)
(* Durations decoded from a file are whole milliseconds (pydub's           *)
(* len(audio)); a duration passed as a float number of seconds is a whole  *)
(* number of ticks, TicksPerMs ticks to the millisecond, so that           *)
(* int(target * 1000) truncates.  The division len(audio) / 1000 is taken  *)
(* as exact: binary rounding of the quotient is outside the model.         *)
(***************************************************************************)
EXTENDS Integers, Sequences, FiniteSets, TLC

VARIABLES
    pc,        \* position of create_short
    run,       \* arguments and locals of create_short
    started,   \* the stages create_short has invoked, in order
    finished,  \* the stages that have returned to create_short, in order
    caller,    \* what the caller of create_short has received
    call,      \* the frame of the client call in progress (generate_music / generate_video_from_text)
    net,       \* the number of jobs submitted to each remote service in the run
    fs,        \* the file system: contents and number of writes per path
    api,       \* a direct call of a method, outside create_short
    remote     \* per service: whether the job completed remotely after the client gave up

pipeVars == <<pc, run, started, finished, caller, call, net, remote>>
vars == <<pc, run, started, finished, caller, call, net, fs, api, remote>>

(***************************************************************************)
(* Bounds of the model and constants of the program.                       *)
(***************************************************************************)
TicksPerMs == 2          \* resolution of a float number of seconds below the millisecond
PipeStepMs == 700        \* grid of the durations the remote services deliver in a run
PipeMaxSteps == 3
AdjStepMs == 500         \* grid of the durations of the direct calls
AdjMaxSteps == 8
VolMaxDb == 6            \* range of the gains and of the headroom of the clips, in dB
NumRuns == 2             \* runs of create_short that share an output directory
ClockTicksPerSecond == 2 \* resolution of the clock below the second
MaxClock == 5            \* the clock runs from 0 to MaxClock ticks

max_attempts == 60       \* suno_client.py:77, runway_client.py:68
PollInterval == 5        \* suno_client.py:107, runway_client.py:98 (seconds)
MsPerSecond == 1000      \* music_generator.py:80
ToleranceSeconds == 1    \* music_generator.py:83
MaxFadeMs == 3000        \* music_generator.py:99
FadeDivisor == 10        \* music_generator.py:99 (the factor 0.1)
volume_reduction_db == -10  \* music_generator.py:133

TicksPerSecond == MsPerSecond * TicksPerMs

(***************************************************************************)
(* Python values.                                                          *)
(***************************************************************************)
None == "None"
Falsy(v) == v \in {None, ""}

NoError == [type |-> "none", msg |-> "", reason |-> ""]
Error(type, msg, reason) == [type |-> type, msg |-> msg, reason |-> reason]

Min(a, b) == IF a < b THEN a ELSE b
Abs(a) == IF a < 0 THEN -a ELSE a

(***************************************************************************)
(* The file system.                                                        *)
(***************************************************************************)
Paths == {"script", "voiceover", "music", "video", "with_audio", "final",
          "metadata", "adjusted", "caption_video"}

NoFile == [kind |-> "none"]

\* An audio file: the first dur ms, from offset start, of copies
\* concatenated copies of the clip src, with gain dB requested of it in
\* total, with a fade-out over its last fade ms.  peak is the level of its
\* loudest sample in dB relative to full scale (0: a clip at full scale).
Audio(src, dur) ==
    [kind |-> "audio", src |-> src, dur |-> dur, start |-> 0, copies |-> 1,
     gain |-> 0, peak |-> 0, fade |-> 0]

EmptyFs == [files |-> [p \in Paths |-> NoFile], writes |-> [p \in Paths |-> 0]]

WriteFile(f, p, content) ==
    [files |-> [f.files EXCEPT ![p] = content],
     writes |-> [f.writes EXCEPT ![p] = @ + 1]]

Exists(f, p) == f.files[p] # NoFile

(***************************************************************************)
(* The client call: SunoClient.generate_music and                          *)
(* RunwayClient.generate_video_from_text.  Both submit one job, then poll   *)
(* its status up to max_attempts times, sleeping between polls.            *)
(* The counters posts, polls, sleeps, downloads and returns record what    *)
(* the call has done so far.                                               *)
(***************************************************************************)
Clients == {"suno", "runway"}

\* status_data.get("status"): None when the response carries no status.
Statuses == {"pending", "running", "cancelled", None, "completed", "failed"}
\* response.json().get("id")
GenerationIds == {None, "", "gen-1"}
\* status_data.get("audio_url"), status_data.get("output", {}).get("video")
ArtifactUrls == {None, "", "https://cdn/artifact"}
\* status_data.get("error", "Unknown error"): "absent" when the key is missing
VendorErrors == {"absent", "quota exceeded"}

IdleCall ==
    [client |-> "none", pc |-> "idle", output_path |-> None, id |-> "unset", attempt |-> 0,
     posts |-> 0, polls |-> 0, nonterminal |-> 0, sleeps |-> 0, waited |-> 0,
     downloads |-> 0, returns |-> 0,
     status |-> "unset", url |-> None, vendor_error |-> "absent",
     err |-> NoError, ret |-> None]

StartCall(client, output_path) ==
    [IdleCall EXCEPT !.client = client, !.pc = "post", !.output_path = output_path]

Raise(c, e) == [c EXCEPT !.pc = "raised", !.err = e]

\* The mutant of SubmitStep: the generation id is used unchecked.
SubmitStepNoIdCheck(c, http_ok, id) ==
    LET c1 == [c EXCEPT !.posts = @ + 1, !.id = IF http_ok THEN id ELSE @] IN
    IF ~http_ok THEN Raise(c1, Error("HTTPError", "submit", ""))
    ELSE [c1 EXCEPT !.pc = "poll", !.attempt = 0]

\* requests.post(url, ...); raise_for_status(); the generation id
SubmitStep(c, http_ok, id) ==
    LET c1 == [c EXCEPT !.posts = @ + 1, !.id = IF http_ok THEN id ELSE @] IN
    IF ~http_ok THEN Raise(c1, Error("HTTPError", "submit", ""))
    ELSE IF Falsy(id)
         THEN Raise(c1, Error("ValueError", "Failed to get generation ID", ""))
         ELSE [c1 EXCEPT !.pc = "poll", !.attempt = 0]

\* The mutant of PollStep: a "failed" status is treated like a pending one.
PollStepRetriesFailed(c, http_ok, status, url, vendor_error) ==
    LET c1 == [c EXCEPT !.polls = @ + 1,
                        !.status = IF http_ok THEN status ELSE @,
                        !.url = IF http_ok /\ status = "completed" THEN url ELSE @,
                        !.vendor_error = IF http_ok /\ status = "failed" THEN vendor_error ELSE @] IN
    IF ~http_ok THEN Raise(c1, Error("HTTPError", "status", ""))
    ELSE IF status = "completed"
         THEN IF Falsy(url)
              THEN Raise(c1, Error("ValueError", "No URL in completed generation", ""))
              ELSE [c1 EXCEPT !.pc = "fetch"]
         ELSE [c1 EXCEPT !.pc = "sleep", !.nonterminal = @ + 1]

\* The mutant of PollStep: the URL of a completed job is used unchecked.
PollStepNoUrlCheck(c, http_ok, status, url, vendor_error) ==
    LET c1 == [c EXCEPT !.polls = @ + 1,
                        !.status = IF http_ok THEN status ELSE @,
                        !.url = IF http_ok /\ status = "completed" THEN url ELSE @,
                        !.vendor_error = IF http_ok /\ status = "failed" THEN vendor_error ELSE @] IN
    IF ~http_ok THEN Raise(c1, Error("HTTPError", "status", ""))
    ELSE IF status = "completed"
         THEN [c1 EXCEPT !.pc = "fetch"]
         ELSE IF status = "failed"
              THEN Raise(c1, Error("ValueError", "generation failed",
                                   IF vendor_error = "absent" THEN "Unknown error"
                                   ELSE vendor_error))
              ELSE [c1 EXCEPT !.pc = "sleep", !.nonterminal = @ + 1]

\* The mutant of PollStep: a "cancelled" status ends the call like a "failed"
\* one.
PollStepCancelledTerminal(c, http_ok, status, url, vendor_error) ==
    LET c1 == [c EXCEPT !.polls = @ + 1,
                        !.status = IF http_ok THEN status ELSE @,
                        !.url = IF http_ok /\ status = "completed" THEN url ELSE @,
                        !.vendor_error = IF http_ok /\ status = "failed" THEN vendor_error ELSE @] IN
    IF ~http_ok THEN Raise(c1, Error("HTTPError", "status", ""))
    ELSE IF status = "completed"
         THEN IF Falsy(url)
              THEN Raise(c1, Error("ValueError", "No URL in completed generation", ""))
              ELSE [c1 EXCEPT !.pc = "fetch"]
         ELSE IF status \in {"failed", "cancelled"}
              THEN Raise(c1, Error("ValueError", "generation failed",
                                   IF vendor_error = "absent" THEN "Unknown error"
                                   ELSE vendor_error))
              ELSE [c1 EXCEPT !.pc = "sleep", !.nonterminal = @ + 1]

\* The mutant of PollStep: the last iteration of the loop does not wait before
\* the loop ends.
PollStepNoFinalWait(c, http_ok, status, url, vendor_error) ==
    LET c1 == [c EXCEPT !.polls = @ + 1,
                        !.status = IF http_ok THEN status ELSE @,
                        !.url = IF http_ok /\ status = "completed" THEN url ELSE @,
                        !.vendor_error = IF http_ok /\ status = "failed" THEN vendor_error ELSE @] IN
    IF ~http_ok THEN Raise(c1, Error("HTTPError", "status", ""))
    ELSE IF status = "completed"
         THEN IF Falsy(url)
              THEN Raise(c1, Error("ValueError", "No URL in completed generation", ""))
              ELSE [c1 EXCEPT !.pc = "fetch"]
         ELSE IF status = "failed"
              THEN Raise(c1, Error("ValueError", "generation failed",
                                   IF vendor_error = "absent" THEN "Unknown error"
                                   ELSE vendor_error))
              ELSE IF c.attempt = max_attempts - 1
                   THEN [c1 EXCEPT !.pc = "poll", !.attempt = @ + 1,
                                   !.nonterminal = @ + 1]
                   ELSE [c1 EXCEPT !.pc = "sleep", !.nonterminal = @ + 1]

\* One iteration of the loop up to its dispatch on the status:
\* requests.get(status_url); raise_for_status(); status_data.get("status").
\* nonterminal counts the responses that carried neither "completed" nor
\* "failed".
PollStep(c, http_ok, status, url, vendor_error) ==
    LET c1 == [c EXCEPT !.polls = @ + 1,
                        !.status = IF http_ok THEN status ELSE @,
                        !.url = IF http_ok /\ status = "completed" THEN url ELSE @,
                        !.vendor_error = IF http_ok /\ status = "failed" THEN vendor_error ELSE @] IN
    IF ~http_ok THEN Raise(c1, Error("HTTPError", "status", ""))
    ELSE IF status = "completed"
         THEN IF Falsy(url)
              THEN Raise(c1, Error("ValueError", "No URL in completed generation", ""))
              ELSE [c1 EXCEPT !.pc = "fetch"]
         ELSE IF status = "failed"
              THEN Raise(c1, Error("ValueError", "generation failed",
                                   IF vendor_error = "absent" THEN "Unknown error"
                                   ELSE vendor_error))
              ELSE [c1 EXCEPT !.pc = "sleep", !.nonterminal = @ + 1]

\* The mutant of FetchStep: the "completed" branch lacks its return and falls
\* through to the sleep at the end of the loop body.
FetchStepNoReturn(c, http_ok) ==
    LET c1 == [c EXCEPT !.downloads = @ + 1] IN
    IF ~http_ok THEN Raise(c1, Error("HTTPError", "download", ""))
    ELSE [c1 EXCEPT !.pc = "sleep", !.nonterminal = @ + 1]

\* requests.get(audio_url); raise_for_status(); write the file; return output_path
FetchStep(c, http_ok) ==
    LET c1 == [c EXCEPT !.downloads = @ + 1] IN
    IF ~http_ok THEN Raise(c1, Error("HTTPError", "download", ""))
    ELSE [c1 EXCEPT !.pc = "returned", !.returns = @ + 1, !.ret = c.output_path]

\* The mutant of SleepStep: the wait grows with the attempt number.
SleepStepBackoff(c) ==
    [c EXCEPT !.sleeps = @ + 1, !.waited = @ + PollInterval * (c.attempt + 1),
              !.attempt = @ + 1, !.pc = "poll"]

\* time.sleep(5), then the next value of range(max_attempts); waited is the
\* total of the waits of the call, in seconds
SleepStep(c) ==
    [c EXCEPT !.sleeps = @ + 1, !.waited = @ + PollInterval,
              !.attempt = @ + 1, !.pc = "poll"]

\* The mutant of LoopExhausted: the loop runs once more.
LoopExhaustedLate(c) == c.attempt >= max_attempts + 1

\* The mutant of LoopExhausted: an off-by-one in the loop bound.
LoopExhaustedEarly(c) == c.attempt >= max_attempts - 1

\* range(max_attempts) is exhausted
LoopExhausted(c) == c.attempt >= max_attempts

TimeoutStep(c) == Raise(c, Error("TimeoutError", "generation timed out", ""))

\* The errors a call of generate_music or generate_video_from_text can end with
ClientCallErrors ==
    {Error("HTTPError", "submit", ""),
     Error("ValueError", "Failed to get generation ID", ""),
     Error("HTTPError", "status", ""),
     Error("ValueError", "No URL in completed generation", ""),
     Error("HTTPError", "download", ""),
     Error("TimeoutError", "generation timed out", "")}
        \cup {Error("ValueError", "generation failed", reason) :
                 reason \in {"Unknown error", "quota exceeded"}}

(***************************************************************************)
(* pydub's AudioSegment operations, on the description of an audio file.   *)
(***************************************************************************)
\* audio * n
Times(a, n) == [a EXCEPT !.dur = @ * n, !.copies = @ * n]
\* The mutant of SliceHead: the slice keeps the end of the clip, audio[-n:].
SliceTail(a, n) == [a EXCEPT !.start = @ + (a.dur - Min(a.dur, n)), !.dur = Min(@, n)]
\* audio[:n], n >= 0
SliceHead(a, n) == [a EXCEPT !.dur = Min(@, n)]
\* audio.fade_out(d)
FadeOut(a, d) == [a EXCEPT !.fade = d]
\* audio + db: pydub multiplies every sample by 10^(db/20) with audioop.mul,
\* which truncates a sample that leaves the sample width to full scale
ApplyGain(a, db) == [a EXCEPT !.gain = @ + db, !.peak = Min(0, @ + db)]

(***************************************************************************)
(* MusicGenerator.adjust_music_duration.  target is in ticks, the decoded  *)
(* duration len(audio) in ms.  The result holds the file system after the  *)
(* call, the returned path or the error raised, and the branch taken.      *)
(***************************************************************************)
\* int(target_duration * 1000)
IntMs(target) == target \div TicksPerMs

\* int(target_duration / current_duration) + 1, current in ticks and not 0
RepeatCount(target, current) == (target \div current) + 1

\* min(3000, int(target_duration * 1000 * 0.1))
FadeDuration(target) == Min(MaxFadeMs, target \div (FadeDivisor * TicksPerMs))

\* The mutant of CloseEnough: the comparison with the target is missing.
CloseEnoughNever(current, target) == FALSE

\* The mutant of CloseEnough: only an exact match counts as close.
CloseEnoughExact(current, target) == current = target

\* abs(current_duration - target_duration) < 1
CloseEnough(current, target) ==
    Abs(current - target) < ToleranceSeconds * TicksPerSecond

AdjustResult(f, ret, err, branch) ==
    [fs |-> f, ret |-> ret, err |-> err, branch |-> branch]

AdjustMusicDuration(f, music_path, target, output_path) ==
    LET out == IF Falsy(output_path) THEN music_path ELSE output_path
        audio == f.files[music_path]
        current == audio.dur * TicksPerMs
        fade == FadeDuration(target)
    IN  IF CloseEnough(current, target)
        THEN AdjustResult(f, music_path, NoError, "noop")
        ELSE IF current < target
             THEN IF current = 0
                  THEN AdjustResult(f, None,
                                    Error("ZeroDivisionError", "float division by zero", ""),
                                    "loop")
                  ELSE LET extended == Times(audio, RepeatCount(target, current))
                           adjusted == SliceHead(extended, IntMs(target))
                       IN  AdjustResult(WriteFile(f, out, FadeOut(adjusted, fade)),
                                        out, NoError, "loop")
             ELSE LET adjusted == SliceHead(audio, IntMs(target))
                  IN  AdjustResult(WriteFile(f, out, FadeOut(adjusted, fade)),
                                   out, NoError, "trim")

\* MusicGenerator.adjust_music_volume
AdjustMusicVolume(f, music_path, volume_adjustment_db, output_path) ==
    LET out == IF Falsy(output_path) THEN music_path ELSE output_path
    IN  AdjustResult(WriteFile(f, out, ApplyGain(f.files[music_path], volume_adjustment_db)),
                     out, NoError, "volume")

\* The mutant of AdjustGeneratedMusic: the volume is reduced first, the
\* duration reconciled after.
AdjustGeneratedMusicVolumeFirst(f, music_path, target) ==
    LET quiet == AdjustMusicVolume(f, music_path, volume_reduction_db, None)
        adjusted == AdjustMusicDuration(quiet.fs, quiet.ret, target, None)
    IN  IF adjusted.err # NoError
        THEN [fs |-> quiet.fs, ret |-> None, err |-> adjusted.err,
              ops |-> <<"adjust_music_volume", "adjust_music_duration">>,
              adjusted |-> NoFile]
        ELSE [fs |-> adjusted.fs, ret |-> adjusted.ret, err |-> NoError,
              ops |-> <<"adjust_music_volume", "adjust_music_duration">>,
              adjusted |-> quiet.fs.files[quiet.ret]]

\* create_music_for_voiceover after generate_background_music returned:
\* adjust_music_duration, then adjust_music_volume on the path it returned.
\* ops is the sequence of the calls made, adjusted the file at adjusted_path
\* when the volume step read it.
AdjustGeneratedMusic(f, music_path, target) ==
    LET adjusted == AdjustMusicDuration(f, music_path, target, None)
    IN  IF adjusted.err # NoError
        THEN [fs |-> f, ret |-> None, err |-> adjusted.err,
              ops |-> <<"adjust_music_duration">>, adjusted |-> NoFile]
        ELSE LET final == AdjustMusicVolume(adjusted.fs, adjusted.ret,
                                            volume_reduction_db, None)
             IN  [fs |-> final.fs, ret |-> final.ret, err |-> NoError,
                  ops |-> <<"adjust_music_duration", "adjust_music_volume">>,
                  adjusted |-> adjusted.fs.files[adjusted.ret]]

(***************************************************************************)
(* VideoGenerator.add_audio_to_video and add_text_overlay.  moviepy's clip *)
(* durations are taken in ms.  write_ok is whether write_videofile         *)
(* succeeds.                                                               *)
(***************************************************************************)
NoAudio == [kind |-> "none"]

Video(dur) == [kind |-> "video", dur |-> dur, audio |-> NoAudio, captions |-> None]

AddAudioToVideo(f, video_path, audio_path, output_path, write_ok) ==
    LET video == f.files[video_path]
        audio == f.files[audio_path]
    IN  IF video.dur > audio.dur /\ audio.dur = 0
        THEN AdjustResult(f, None,
                          Error("ZeroDivisionError", "float division by zero", ""), "loop")
        ELSE LET track ==
                   IF audio.dur > video.dur THEN SliceHead(audio, video.dur)
                   ELSE IF video.dur > audio.dur
                        THEN SliceHead(Times(audio, (video.dur \div audio.dur) + 1),
                                       video.dur)
                        ELSE audio
                 branch == IF audio.dur > video.dur THEN "trim"
                           ELSE IF video.dur > audio.dur THEN "loop" ELSE "same"
             IN  IF write_ok
                 THEN AdjustResult(WriteFile(f, output_path, [video EXCEPT !.audio = track]),
                                   output_path, NoError, branch)
                 ELSE AdjustResult(f, None, Error("IOError", "write_videofile", ""), branch)

AddTextOverlay(f, video_path, text, output_path, write_ok) ==
    IF write_ok
    THEN AdjustResult(WriteFile(f, output_path, [f.files[video_path] EXCEPT !.captions = text]),
                      output_path, NoError, "overlay")
    ELSE AdjustResult(f, None, Error("IOError", "write_videofile", ""), "overlay")

(***************************************************************************)
(* YouTubeShortsCreator.create_short.                                      *)
(***************************************************************************)
PipeDurations == {k * PipeStepMs : k \in 0..PipeMaxSteps}
\* the duration argument of create_short, in seconds (default 30)
RequestedDurations == {30, 60}
NoMeta == [kind |-> "none"]
ScriptText == "the script"
Topic == "the topic"

\* The mutant of AfterStage: the video is generated before the music.
AfterStageVideoFirst(stage, add_captions) ==
    CASE stage = "script" -> "voiceover"
      [] stage = "voiceover" -> "video"
      [] stage = "video" -> "music"
      [] stage = "music" -> "mux"
      [] stage = "mux" -> IF add_captions THEN "overlay" ELSE "copy"
      [] stage \in {"overlay", "copy"} -> "manifest"
      [] stage = "manifest" -> "done"

\* The mutant of AfterStage: step 6 overlays the captions whatever
\* add_captions says.
AfterStageAlwaysOverlay(stage, add_captions) ==
    CASE stage = "script" -> "voiceover"
      [] stage = "voiceover" -> "music"
      [] stage = "music" -> "video"
      [] stage = "video" -> "mux"
      [] stage = "mux" -> "overlay"
      [] stage \in {"overlay", "copy"} -> "manifest"
      [] stage = "manifest" -> "done"

\* The stage that follows a stage that returned.
AfterStage(stage, add_captions) ==
    CASE stage = "script" -> "voiceover"
      [] stage = "voiceover" -> "music"
      [] stage = "music" -> "video"
      [] stage = "video" -> "mux"
      [] stage = "mux" -> IF add_captions THEN "overlay" ELSE "copy"
      [] stage \in {"overlay", "copy"} -> "manifest"
      [] stage = "manifest" -> "done"

\* The mutant of AfterError: create_short catches the error of a stage and
\* goes on with the next one.
AfterErrorContinues(stage) == AfterStage(stage, TRUE)

\* create_short has no handler: an error raised in a stage leaves it.
AfterError(stage) == "aborted"

\* The mutant of ActualDuration: the duration argument of create_short.
ActualDurationFromArgument(r) == r.duration * TicksPerSecond

\* actual_duration, the duration create_short passes to the video stage and
\* writes into the metadata: the one the voiceover stage reported.
ActualDuration(r) == r.actual_duration

\* The mutant of TargetDuration: the duration argument of create_short.
TargetDurationFromArgument(r) == r.duration * TicksPerSecond

\* target_duration=voiceover_duration: the target create_music_for_voiceover
\* passes to adjust_music_duration.
TargetDuration(r) == r.voiceover_duration

\* The file a stage leaves on disk.
ArtifactOf(stage) ==
    CASE stage = "script" -> "script"
      [] stage = "voiceover" -> "voiceover"
      [] stage = "music" -> "music"
      [] stage = "video" -> "video"
      [] stage = "mux" -> "with_audio"
      [] stage \in {"overlay", "copy"} -> "final"
      [] stage = "manifest" -> "metadata"

Running == [status |-> "running", stage |-> None, err |-> NoError, result |-> None]

Begin(stage) == started' = Append(started, stage)

Returns(stage) ==
    /\ finished' = Append(finished, stage)
    /\ pc' = AfterStage(stage, run.add_captions)

Fails(stage, e) ==
    /\ pc' = AfterError(stage)
    /\ caller' = IF AfterError(stage) = "aborted"
                 THEN [caller EXCEPT !.status = "raised", !.stage = stage, !.err = e]
                 ELSE [caller EXCEPT !.stage = stage]
    /\ UNCHANGED finished

\* The methods the adapter classes define.  create_short calls
\* text_generator.generate_short_script and audio_generator.generate_speech,
\* which neither class defines: with the adapters of the source the lookup
\* raises AttributeError.  With run.adapters = "contract" the two methods are
\* taken to exist and to follow the uniform generate contract of the
\* specification.
TextGeneratorMethods == {"generate_script", "generate_hooks"}
AudioGeneratorMethods ==
    {"list_voices", "find_voice", "generate_voiceover", "optimize_script_for_tts"}

HasMethod(methods, name) == run.adapters = "contract" \/ name \in methods

\* generate_short_script(topic, target_duration, output_file) under the
\* contract: the script is written to output_file and returned, or an error
\* is raised.
GenerateShortScript(f, output_file, ok) ==
    IF ok
    THEN [fs |-> WriteFile(f, output_file, [kind |-> "text", text |-> ScriptText]),
          err |-> NoError, text |-> ScriptText, output_path |-> output_file,
          metadata |-> [kind |-> "script"]]
    ELSE [fs |-> f, err |-> Error("AdapterError", "script", ""),
          text |-> None, output_path |-> None, metadata |-> NoMeta]

\* generate_speech(text, output_path, voice_id) under the contract: the
\* speech is written to output_path and its measured duration (here in ticks)
\* is returned in the metadata, or an error is raised.
GenerateSpeech(f, output_path, ok, dur) ==
    IF ok
    THEN [fs |-> WriteFile(f, output_path, Audio("tts", dur)),
          err |-> NoError, output_path |-> output_path, duration |-> dur * TicksPerMs,
          metadata |-> [duration |-> dur * TicksPerMs]]
    ELSE [fs |-> f, err |-> Error("AdapterError", "voiceover", ""),
          output_path |-> None, duration |-> -1, metadata |-> NoMeta]

\* Step 1: the script
ScriptStage ==
    /\ pc = "script"
    /\ Begin("script")
    /\ IF ~HasMethod(TextGeneratorMethods, "generate_short_script")
       THEN /\ Fails("script", Error("AttributeError", "generate_short_script", ""))
            /\ UNCHANGED <<fs, run>>
       ELSE \E ok \in BOOLEAN :
              LET script_result == GenerateShortScript(fs, "script", ok)
              IN  IF script_result.err = NoError
                  THEN /\ fs' = script_result.fs
                       /\ run' = [run EXCEPT !.script = script_result.text,
                                             !.script_path = script_result.output_path,
                                             !.script_meta = script_result.metadata]
                       /\ Returns("script")
                       /\ UNCHANGED caller
                  ELSE /\ Fails("script", script_result.err)
                       /\ UNCHANGED <<fs, run>>
    /\ UNCHANGED <<call, net, api, remote>>

\* Step 2: the voiceover and its measured duration
VoiceoverStage ==
    /\ pc = "voiceover"
    /\ Begin("voiceover")
    /\ IF ~HasMethod(AudioGeneratorMethods, "generate_speech")
       THEN /\ Fails("voiceover", Error("AttributeError", "generate_speech", ""))
            /\ UNCHANGED <<fs, run>>
       ELSE \E ok \in BOOLEAN, dur \in PipeDurations :
              LET voiceover_result == GenerateSpeech(fs, "voiceover", ok, dur)
              IN  IF voiceover_result.err = NoError
                  THEN /\ fs' = voiceover_result.fs
                       /\ run' = [run EXCEPT !.actual_duration = voiceover_result.duration,
                                             !.voiceover_meta = voiceover_result.metadata]
                       /\ Returns("voiceover")
                       /\ UNCHANGED caller
                  ELSE /\ Fails("voiceover", voiceover_result.err)
                       /\ UNCHANGED <<fs, run>>
    /\ UNCHANGED <<call, net, api, remote>>

\* Step 3, up to the client call: create_music_for_voiceover measures the
\* voiceover and generate_background_music calls client.generate_music.
CreateMusicForVoiceover ==
    /\ pc = "music"
    /\ Begin("music")
    /\ run' = [run EXCEPT !.voiceover_duration = fs.files["voiceover"].dur * TicksPerMs]
    /\ call' = StartCall("suno", "music")
    /\ pc' = "music_client"
    /\ UNCHANGED <<finished, caller, net, fs, api, remote>>

\* Step 4, up to the client call: VideoGenerator.generate_video_from_text
GenerateVideoFromText ==
    /\ pc = "video"
    /\ Begin("video")
    /\ run' = [run EXCEPT !.video_request = ActualDuration(run)]
    /\ call' = StartCall("runway", "video")
    /\ pc' = "video_client"
    /\ UNCHANGED <<finished, caller, net, fs, api, remote>>

StageOfCall == IF pc = "music_client" THEN "music" ELSE "video"

ClientSubmit ==
    /\ pc \in {"music_client", "video_client"}
    /\ call.pc = "post"
    /\ \E http_ok \in BOOLEAN, id \in GenerationIds :
         call' = SubmitStep(call, http_ok, id)
    /\ net' = [net EXCEPT ![call.client] = @ + 1]
    /\ UNCHANGED <<pc, run, started, finished, caller, fs, api, remote>>

ClientPoll ==
    /\ pc \in {"music_client", "video_client"}
    /\ call.pc = "poll"
    /\ ~LoopExhausted(call)
    /\ \E http_ok \in BOOLEAN, status \in Statuses, url \in ArtifactUrls,
          vendor_error \in VendorErrors :
         call' = PollStep(call, http_ok, status, url, vendor_error)
    /\ UNCHANGED <<pc, run, started, finished, caller, net, fs, api, remote>>

\* The mutant of ClientFetch: the output file is opened for writing before
\* the download is known to have succeeded.
ClientFetchWritesFirst ==
    /\ pc \in {"music_client", "video_client"}
    /\ call.pc = "fetch"
    /\ \E http_ok \in BOOLEAN, dur \in PipeDurations :
         /\ call' = FetchStep(call, http_ok)
         /\ fs' = WriteFile(fs, call.output_path,
                            IF call.client = "suno"
                            THEN Audio("suno", IF http_ok THEN dur ELSE 0)
                            ELSE Video(IF http_ok THEN dur ELSE 0))
    /\ UNCHANGED <<pc, run, started, finished, caller, net, api, remote>>

\* The "completed" branch from the download on: the only statements of the
\* client that touch the file system (os.makedirs, open, write).
ClientFetch ==
    /\ pc \in {"music_client", "video_client"}
    /\ call.pc = "fetch"
    /\ \E http_ok \in BOOLEAN, dur \in PipeDurations :
         /\ call' = FetchStep(call, http_ok)
         /\ fs' = IF http_ok
                  THEN WriteFile(fs, call.output_path,
                                 IF call.client = "suno" THEN Audio("suno", dur)
                                 ELSE Video(dur))
                  ELSE fs
    /\ UNCHANGED <<pc, run, started, finished, caller, net, api, remote>>

ClientSleep ==
    /\ pc \in {"music_client", "video_client"}
    /\ call.pc = "sleep"
    /\ call' = SleepStep(call)
    /\ UNCHANGED <<pc, run, started, finished, caller, net, fs, api, remote>>

ClientTimeout ==
    /\ pc \in {"music_client", "video_client"}
    /\ call.pc = "poll"
    /\ LoopExhausted(call)
    /\ call' = TimeoutStep(call)
    /\ UNCHANGED <<pc, run, started, finished, caller, net, fs, api, remote>>

\* The service finishes a job after the client has given up on it.  Neither
\* client has a statement that runs after its raise, so nothing of the run
\* observes it.
RemoteCompletes ==
    /\ pc \in {"music_client", "video_client", "aborted"}
    /\ call.pc = "raised"
    /\ call.id \notin {"unset", None, ""}
    /\ remote[call.client] = "unknown"
    /\ remote' = [remote EXCEPT ![call.client] = "completed"]
    /\ UNCHANGED <<pc, run, started, finished, caller, call, net, fs, api>>

\* The mutant of ClientRaises: the client sends a cancellation request for
\* the job before the error leaves it.
ClientRaisesAndCancels ==
    /\ pc \in {"music_client", "video_client"}
    /\ call.pc = "raised"
    /\ Fails(StageOfCall, call.err)
    /\ call' = [call EXCEPT !.posts = @ + 1]
    /\ UNCHANGED <<run, started, net, fs, api, remote>>

\* The error of the client call leaves generate_background_music or
\* generate_video_from_text and then create_short.
ClientRaises ==
    /\ pc \in {"music_client", "video_client"}
    /\ call.pc = "raised"
    /\ Fails(StageOfCall, call.err)
    /\ UNCHANGED <<run, started, call, net, fs, api, remote>>

\* Step 3, after the client call: the duration of the music is measured,
\* adjusted to the voiceover's and its volume reduced.
MusicReturns ==
    /\ pc = "music_client"
    /\ call.pc = "returned"
    /\ LET actual == fs.files[call.ret].dur * TicksPerMs
           result == AdjustGeneratedMusic(fs, call.ret, TargetDuration(run))
       IN  /\ fs' = result.fs
           /\ IF result.err # NoError
              THEN /\ Fails("music", result.err)
                   /\ run' = [run EXCEPT !.music_ops = <<"generate_music">> \o result.ops]
              ELSE /\ run' = [run EXCEPT
                                 !.music_path = result.ret,
                                 !.music_target = TargetDuration(run),
                                 !.music_ops = <<"generate_music">> \o result.ops,
                                 !.music_adjusted = result.adjusted,
                                 !.music_meta =
                                     [requested_duration |-> run.voiceover_duration,
                                      actual_duration |-> actual,
                                      voiceover_duration |-> run.voiceover_duration,
                                      volume_adjustment |-> volume_reduction_db]]
                   /\ Returns("music")
                   /\ UNCHANGED caller
    /\ call' = IdleCall
    /\ UNCHANGED <<started, net, api, remote>>

\* Step 4, after the client call: the metadata repeats the request.
VideoReturns ==
    /\ pc = "video_client"
    /\ call.pc = "returned"
    /\ run' = [run EXCEPT !.video_path = call.ret,
                          !.video_meta = [duration |-> run.video_request]]
    /\ Returns("video")
    /\ call' = IdleCall
    /\ UNCHANGED <<started, caller, net, fs, api, remote>>

\* The mutant of MuxAudioPath: the background music is muxed.
MuxAudioPathMusic(r) == r.music_path

\* audio_path=voiceover_path in step 5
MuxAudioPath(r) == "voiceover"

\* The clips add_audio_to_video opens: VideoFileClip and AudioFileClip
MuxClips == {"video_clip", "audio_clip"}

\* The clips add_text_overlay opens: VideoFileClip, TextClip and
\* CompositeVideoClip
OverlayClips == {"overlay_video_clip", "text_clip", "final_clip"}

\* The clips add_audio_to_video can leave open at its exit.  Its two close()
\* calls are the last statements before the return and nothing guards them, so
\* an exception skips both.  On the loop path audio_clip names the concatenated
\* clip by then, and whether closing that one closes the AudioFileClip that was
\* opened is up to the library: both outcomes are kept.
OpenAfterAddAudio(r) ==
    IF r.err # NoError THEN {MuxClips}
    ELSE IF r.branch = "loop" THEN {{}, {"audio_clip"}} ELSE {{}}

\* The clips add_text_overlay leaves open at its exit: the three close() calls
\* follow write_videofile unguarded.
OpenAfterAddTextOverlay(r) == IF r.err # NoError THEN OverlayClips ELSE {}

\* Step 5: video_generator.add_audio_to_video
AddAudio ==
    /\ pc = "mux"
    /\ Begin("mux")
    /\ \E write_ok \in BOOLEAN :
         LET r == AddAudioToVideo(fs, run.video_path, MuxAudioPath(run), "with_audio",
                                  write_ok)
         IN  /\ \E open \in OpenAfterAddAudio(r) :
                  run' = [run EXCEPT !.open_clips = @ \cup open]
             /\ IF r.err = NoError
                THEN /\ fs' = r.fs
                     /\ Returns("mux")
                     /\ UNCHANGED caller
                ELSE /\ Fails("mux", r.err)
                     /\ UNCHANGED fs
    /\ UNCHANGED <<call, net, api, remote>>

\* Step 6 with add_captions: video_generator.add_text_overlay
AddCaptions ==
    /\ pc = "overlay"
    /\ Begin("overlay")
    /\ \E write_ok \in BOOLEAN :
         LET r == AddTextOverlay(fs, "with_audio", run.script, "final", write_ok)
         IN  /\ run' = [run EXCEPT !.open_clips = @ \cup OpenAfterAddTextOverlay(r)]
             /\ IF r.err = NoError
                THEN /\ fs' = r.fs
                     /\ Returns("overlay")
                     /\ UNCHANGED caller
                ELSE /\ Fails("overlay", r.err)
                     /\ UNCHANGED fs
    /\ UNCHANGED <<call, net, api, remote>>

\* Step 6 without add_captions: shutil.copy
CopyToFinal ==
    /\ pc = "copy"
    /\ Begin("copy")
    /\ \E copy_ok \in BOOLEAN :
         IF copy_ok
         THEN /\ fs' = WriteFile(fs, "final", fs.files["with_audio"])
              /\ Returns("copy")
              /\ UNCHANGED caller
         ELSE /\ Fails("copy", Error("IOError", "copy", ""))
              /\ UNCHANGED fs
    /\ UNCHANGED <<run, call, net, api, remote>>

\* The mutant of Manifest: the file map lacks the intermediate video.
ManifestWithoutIntermediate ==
    [kind |-> "json",
     topic |-> run.topic,
     creation_date |-> "isoformat",
     duration |-> ActualDuration(run),
     files |-> [script |-> run.script_path, voiceover |-> "voiceover",
                music |-> run.music_path, video |-> run.video_path,
                final_video |-> "final"],
     components |-> [text_generation |-> run.script_meta,
                     audio_generation |-> run.voiceover_meta,
                     music_generation |-> run.music_meta,
                     video_generation |-> run.video_meta]]

\* metadata: the dictionary step 7 builds; creation_date is
\* datetime.now().isoformat()
Manifest ==
    [kind |-> "json",
     topic |-> run.topic,
     creation_date |-> "isoformat",
     duration |-> ActualDuration(run),
     files |-> [script |-> run.script_path, voiceover |-> "voiceover",
                music |-> run.music_path, video |-> run.video_path,
                video_with_audio |-> "with_audio", final_video |-> "final"],
     components |-> [text_generation |-> run.script_meta,
                     audio_generation |-> run.voiceover_meta,
                     music_generation |-> run.music_meta,
                     video_generation |-> run.video_meta]]

\* What open(metadata_path, "w") leaves when json.dump raises inside the
\* with block: a file that holds at most a part of the metadata.
TruncatedManifest == [kind |-> "json_truncated"]

\* The outcomes of open(metadata_path, "w") followed by json.dump
ManifestOutcomes == {"written", "open_fails", "dump_fails"}

\* Step 7: the metadata file, and the return of create_short
WriteManifest ==
    /\ pc = "manifest"
    /\ Begin("manifest")
    /\ \E outcome \in ManifestOutcomes :
         CASE outcome = "written" ->
                /\ fs' = WriteFile(fs, "metadata", Manifest)
                /\ Returns("manifest")
                /\ caller' = [caller EXCEPT !.status = "returned",
                                            !.result = "final"]
           [] outcome = "open_fails" ->
                /\ Fails("manifest", Error("IOError", "metadata", ""))
                /\ UNCHANGED fs
           [] outcome = "dump_fails" ->
                /\ fs' = WriteFile(fs, "metadata", TruncatedManifest)
                /\ Fails("manifest", Error("IOError", "json.dump", ""))
    /\ UNCHANGED <<run, call, net, api, remote>>

ApiOff == [pc |-> "off"]

Init ==
    /\ pc = "script"
    /\ run \in [adapters : {"source", "contract"},
                add_captions : BOOLEAN, duration : RequestedDurations,
                script : {None}, actual_duration : {-1}, voiceover_duration : {-1},
                music_path : {None}, video_path : {None},
                music_target : {-1}, video_request : {-1},
                music_ops : {<<>>}, music_adjusted : {NoFile},
                topic : {Topic}, script_path : {None},
                script_meta : {NoMeta}, voiceover_meta : {NoMeta},
                music_meta : {NoMeta}, video_meta : {NoMeta},
                open_clips : {{}}]
    /\ started = <<>>
    /\ finished = <<>>
    /\ caller = Running
    /\ call = IdleCall
    /\ net = [c \in Clients |-> 0]
    /\ remote = [c \in Clients |-> "unknown"]
    /\ fs = EmptyFs
    /\ api = ApiOff

Next ==
    \/ ScriptStage
    \/ VoiceoverStage
    \/ CreateMusicForVoiceover
    \/ ClientSubmit
    \/ ClientPoll
    \/ ClientFetch
    \/ ClientSleep
    \/ ClientTimeout
    \/ ClientRaises
    \/ RemoteCompletes
    \/ MusicReturns
    \/ GenerateVideoFromText
    \/ VideoReturns
    \/ AddAudio
    \/ AddCaptions
    \/ CopyToFinal
    \/ WriteManifest

Spec == Init /\ [][Next]_vars

(***************************************************************************)
(* Properties of the client call and of create_short.                      *)
(***************************************************************************)
StageIndex(stage) ==
    CASE stage = "script" -> 1
      [] stage = "voiceover" -> 2
      [] stage = "music" -> 3
      [] stage = "video" -> 4
      [] stage = "mux" -> 5
      [] stage \in {"overlay", "copy"} -> 6
      [] stage = "manifest" -> 7

CallInProgress == call.pc \in {"post", "poll", "fetch", "sleep"}

\* C1: once a status query has returned "completed" with an artifact URL
\* (every earlier query having returned a non-terminal status, the query
\* being at most the max_attempts-th), no further status query is made, the
\* artifact is requested at most once, and the call ends: where the download
\* succeeds the artifact was requested exactly once, the file was written
\* once and the output path is returned exactly once; where the download
\* fails with an HTTP error the call raises it and returns nothing.
C1_CompletedFetchedOnce ==
    (call.status = "completed" /\ ~Falsy(call.url)) =>
        /\ call.polls = call.sleeps + 1
        /\ call.polls <= max_attempts
        /\ call.posts = 1
        /\ call.pc \in {"fetch", "returned", "raised"}
        /\ call.pc = "fetch" => call.downloads = 0 /\ call.returns = 0
        /\ call.pc = "returned" =>
              /\ call.downloads = 1
              /\ call.returns = 1
              /\ call.ret = call.output_path
              /\ Exists(fs, call.output_path)
              /\ fs.writes[call.output_path] = 1
        /\ call.pc = "raised" =>
              /\ call.downloads = 1
              /\ call.returns = 0
              /\ call.err = Error("HTTPError", "download", "")
              /\ ~Exists(fs, call.output_path)

\* C1's case: the video client returns after "completed" arrived at the last
\* poll the loop allows.
C1_Witness ==
    /\ call.client = "runway"
    /\ call.pc = "returned"
    /\ call.status = "completed"
    /\ call.polls = max_attempts

\* C2: the call raises TimeoutError exactly when max_attempts status queries
\* have each returned a non-terminal status: it has then made max_attempts
\* queries, and it never makes more than max_attempts.
C2_TimeoutAfterMaxAttempts ==
    /\ call.polls <= max_attempts
    /\ call.err.type = "TimeoutError" =>
          /\ call.pc = "raised"
          /\ call.polls = max_attempts
          /\ call.sleeps = max_attempts
          /\ call.status \notin {"completed", "failed"}
          /\ call.downloads = 0
          /\ call.returns = 0
    /\ call.sleeps = max_attempts =>
          /\ call.pc \in {"poll", "raised"}
          /\ call.pc = "raised" => call.err.type = "TimeoutError"

\* C2's case: the music client has timed out.
C2_Witness ==
    /\ call.client = "suno"
    /\ call.pc = "raised"
    /\ call.err.type = "TimeoutError"
    /\ call.status = "pending"

\* C3: once a status query has returned "failed" the call has raised the
\* error "generation failed" with the vendor's reason ("Unknown error" when
\* the response names none); that query was its last, nothing was
\* downloaded; the error reaches the caller of create_short as raised; and no
\* service is ever sent a second job in the run.
C3_FailedNotRetried ==
    /\ \A c \in Clients : net[c] <= 1
    /\ call.status = "failed" =>
          /\ call.pc = "raised"
          /\ call.err = Error("ValueError", "generation failed",
                              IF call.vendor_error = "absent" THEN "Unknown error"
                              ELSE call.vendor_error)
          /\ call.polls = call.sleeps + 1
          /\ call.posts = 1
          /\ call.downloads = 0
          /\ call.returns = 0
          /\ pc \in {"music_client", "video_client", "aborted"}
          /\ pc = "aborted" => caller.status = "raised" /\ caller.err = call.err

\* C3's case: the video job failed with a vendor reason after some polls and
\* the error has reached the caller.
C3_Witness ==
    /\ call.client = "runway"
    /\ call.status = "failed"
    /\ call.vendor_error = "quota exceeded"
    /\ call.polls > 2
    /\ pc = "aborted"

\* C4: when a stage has failed, the error has reached the caller, the
\* failed stage is the last one invoked, every stage before it in the order
\* was invoked and its artifact is on disk.
C4_FailureKeepsArtifactsStopsRun ==
    caller.stage # None =>
        /\ caller.status = "raised"
        /\ pc = "aborted"
        /\ started # <<>>
        /\ started[Len(started)] = caller.stage
        /\ Len(started) = StageIndex(caller.stage)
        /\ \A i \in 1..(Len(started) - 1) :
              /\ StageIndex(started[i]) = i
              /\ Exists(fs, ArtifactOf(started[i]))

\* C4's case: the last stage, the manifest, has failed.
C4_Witness ==
    /\ caller.status = "raised"
    /\ caller.stage = "manifest"
    /\ Len(started) = 7

\* C5: the stages are invoked in the fixed order, each at most once, the
\* caption overlay only with add_captions and the copy only without; a stage
\* is invoked only when every stage before it has returned, and while a
\* client call is in progress its stage is the last one invoked.
C5_StagesInOrderOnce ==
    /\ \A i \in 1..Len(started) :
          /\ StageIndex(started[i]) = i
          /\ started[i] = "overlay" => run.add_captions
          /\ started[i] = "copy" => ~run.add_captions
    /\ Len(finished) <= Len(started)
    /\ Len(started) <= Len(finished) + 1
    /\ \A i \in 1..Len(finished) : finished[i] = started[i]
    /\ CallInProgress =>
          /\ Len(started) = Len(finished) + 1
          /\ started[Len(started)] = (IF call.client = "suno" THEN "music" ELSE "video")

\* C5's case: a run without captions has gone through all seven stages.
C5_Witness ==
    /\ pc = "done"
    /\ ~run.add_captions
    /\ started = <<"script", "voiceover", "music", "video", "mux", "copy", "manifest">>
    /\ finished = started

ReachedManifest == started # <<>> /\ started[Len(started)] = "manifest"

WithinOneSecond(a, b) == Abs(a - b) <= ToleranceSeconds * MsPerSecond

\* C11: in every run that has reached the manifest stage, the music file and
\* the video file each have the duration of the voiceover file within one
\* second.
C11_MusicAndVideoMatchVoiceover ==
    ReachedManifest =>
        /\ WithinOneSecond(fs.files[run.music_path].dur, fs.files["voiceover"].dur)
        /\ WithinOneSecond(fs.files[run.video_path].dur, fs.files["voiceover"].dur)

\* The music half of C11: the music file of a run that has reached the
\* manifest stage is within one second of the voiceover.
MusicMatchesVoiceover ==
    ReachedManifest =>
        WithinOneSecond(fs.files[run.music_path].dur, fs.files["voiceover"].dur)

\* C12: the duration asked of the video stage, the duration the video
\* metadata repeats and the duration field of the manifest are the duration
\* the voiceover stage measured, whatever the duration argument of
\* create_short.
C12_ActualDurationSupersedes ==
    /\ run.video_request # -1 =>
          /\ run.video_request = run.actual_duration
          /\ run.video_request = fs.files["voiceover"].dur * TicksPerMs
    /\ run.video_meta # NoMeta => run.video_meta.duration = run.actual_duration
    /\ fs.files["metadata"].kind = "json" =>
          /\ fs.files["metadata"].duration = run.actual_duration
          /\ fs.files["metadata"].duration = fs.files["voiceover"].dur * TicksPerMs

\* C12's case: a run asked for 60 s whose voiceover measures 1.4 s has
\* written its manifest.
C12_Witness ==
    /\ pc = "done"
    /\ run.duration = 60
    /\ fs.files["voiceover"].dur = 2 * PipeStepMs
    /\ fs.files["metadata"].kind = "json"
    /\ run.video_request # run.duration * TicksPerSecond

\* C13: the target create_music_for_voiceover passes to
\* adjust_music_duration is the duration decoded from the voiceover file.
C13_TargetIsVoiceoverDuration ==
    /\ run.voiceover_duration # -1 =>
          run.voiceover_duration = fs.files["voiceover"].dur * TicksPerMs
    /\ run.music_target # -1 =>
          run.music_target = fs.files["voiceover"].dur * TicksPerMs

\* C13's case: the music of a run asked for 30 s was adjusted to a voiceover
\* of another duration, and the music delivered was longer than it.
C13_Witness ==
    /\ run.duration = 30
    /\ run.music_target = PipeStepMs * TicksPerMs
    /\ run.music_target # run.duration * TicksPerSecond
    /\ run.music_meta # NoMeta
    /\ run.music_meta.actual_duration = PipeMaxSteps * PipeStepMs * TicksPerMs

\* C14: a manifest file exists only when every stage before the manifest
\* stage returned, and no manifest file exists in a run that aborted.
C14_NoManifestOnAbort ==
    /\ Exists(fs, "metadata") => Len(finished) >= 6
    /\ caller.status = "raised" => ~Exists(fs, "metadata")

\* The part of C14 that holds: no manifest file exists before the manifest
\* stage is invoked, and none in a run that aborted in an earlier stage; a
\* complete manifest exists only in a run that returned.
ManifestOnlyInLastStage ==
    /\ Exists(fs, "metadata") => ReachedManifest /\ Len(finished) >= 6
    /\ (caller.status = "raised" /\ caller.stage # "manifest") => ~Exists(fs, "metadata")
    /\ fs.files["metadata"].kind = "json" <=> caller.status = "returned"

\* C15: the error the caller receives from a failed run is a StageFailure.
C15_CallerReceivesStageFailure ==
    caller.status = "raised" => caller.err.type = "StageFailure"

\* C17: a call posts one job and no more; when the response carries no
\* job id the call raises "Failed to get generation ID" and makes no status
\* query, no download and no return; a status query is made only with a job
\* id.
C17_SubmitOnceNoIdNoPoll ==
    /\ call.posts <= 1
    /\ call.pc \notin {"idle", "post"} => call.posts = 1
    /\ call.polls > 0 => ~Falsy(call.id)
    /\ Falsy(call.id) =>
          /\ call.pc = "raised"
          /\ call.err = Error("ValueError", "Failed to get generation ID", "")
          /\ call.posts = 1
          /\ call.polls = 0
          /\ call.downloads = 0
          /\ call.returns = 0
          /\ ~Exists(fs, call.output_path)

\* C17's case: the music service answered without a job id and the run has
\* aborted in the music stage.
C17_Witness ==
    /\ call.client = "suno"
    /\ call.id = ""
    /\ call.pc = "raised"
    /\ pc = "aborted"
    /\ caller.stage = "music"

MuxInvoked == Len(started) >= 5

MuxWriteFailed ==
    caller.stage = "mux" /\ caller.err = Error("IOError", "write_videofile", "")

\* The muxed file: the video stream unchanged, with an audio track of the
\* video's duration cut from the head of the voiceover or of
\* floor(video / audio) + 1 copies of it.
MuxedAsClaimed ==
    /\ Exists(fs, "with_audio")
    /\ LET out == fs.files["with_audio"]
           video == fs.files[run.video_path]
           audio == fs.files["voiceover"]
       IN  /\ out.dur = video.dur
           /\ out.audio.kind = "audio"
           /\ out.audio.dur = video.dur
           /\ out.audio.src = audio.src
           /\ out.audio.start = 0
           /\ out.audio.copies =
                 (IF audio.dur < video.dur THEN (video.dur \div audio.dur) + 1 ELSE 1)
           /\ fs.files[run.video_path].kind = "video"
           /\ fs.files[run.video_path].audio = NoAudio

\* C19: after add_audio_to_video the audio track of the muxed file has the
\* video's duration, by trimming a longer voiceover or by looping a shorter
\* one, and the video's duration is unchanged (where writing the file did
\* not fail).
C19_MuxAudioMatchesVideo ==
    (MuxInvoked /\ ~MuxWriteFailed) => MuxedAsClaimed

\* The part of C19 that holds: the same for every voiceover that is not
\* empty.
MuxHoldsForNonEmptyAudio ==
    (MuxInvoked /\ ~MuxWriteFailed /\ fs.files["voiceover"].dur > 0) => MuxedAsClaimed

\* An empty voiceover under a longer video makes add_audio_to_video raise.
EmptyAudioRaises ==
    (MuxInvoked /\ fs.files["voiceover"].dur = 0 /\ fs.files[run.video_path].dur > 0) =>
        /\ caller.stage = "mux"
        /\ caller.err = Error("ZeroDivisionError", "float division by zero", "")
        /\ ~Exists(fs, "with_audio")

InStarted(stage) == \E i \in 1..Len(started) : started[i] = stage

\* C20: the final video is written once, by exactly one of the two
\* branches of step 6: with add_captions it is the muxed video with the
\* script overlaid; without, it is a copy of the muxed video and no overlay
\* is performed.  A run that returned has a final video.
C20_OverlayOrCopy ==
    /\ ~(InStarted("overlay") /\ InStarted("copy"))
    /\ InStarted("overlay") => run.add_captions
    /\ InStarted("copy") => ~run.add_captions
    /\ fs.writes["final"] <= 1
    /\ Exists(fs, "final") =>
          IF run.add_captions
          THEN /\ InStarted("overlay")
               /\ fs.files["final"] = [fs.files["with_audio"] EXCEPT !.captions = run.script]
               /\ fs.files["final"].captions = ScriptText
          ELSE /\ InStarted("copy")
               /\ fs.files["final"] = fs.files["with_audio"]
               /\ fs.files["final"].captions = None
    /\ pc = "done" => Exists(fs, "final") /\ caller.result = "final"

\* C20's case: a run with captions has returned.
C20_Witness ==
    /\ pc = "done"
    /\ run.add_captions
    /\ fs.files["final"].captions = ScriptText
    /\ fs.files["final"].audio = fs.files["with_audio"].audio

C22_AdaptersProvideOperations ==
    caller.status = "raised" => caller.err.type # "AttributeError"

\* With the adapters of the source every run aborts in the script stage on
\* the missing method, before any remote call.
SourceAdaptersAbortAtScript ==
    run.adapters = "source" =>
        /\ pc \in {"script", "aborted"}
        /\ pc = "aborted" =>
              /\ caller.stage = "script"
              /\ caller.err = Error("AttributeError", "generate_short_script", "")
              /\ fs = EmptyFs
              /\ \A c \in Clients : net[c] = 0

\* C24: no path is written more than once in a run.
C24_AssetsWrittenOnce ==
    \A p \in Paths : fs.writes[p] <= 1

\* The part of C24 that holds: every path but the music's is written at most
\* once, and the music's only by the music stage (by the download, by
\* adjust_music_duration outside the band, by adjust_music_volume).
OnlyMusicRewritten ==
    /\ \A p \in Paths \ {"music"} : fs.writes[p] <= 1
    /\ fs.writes["music"] <= 3
    /\ fs.writes["music"] > 1 => run.music_ops # <<>>

\* No file of the run is ever deleted.
AssetsNeverDeleted ==
    [][\A p \in Paths : Exists(fs, p) => Exists(fs', p)]_vars

\* C25: the duration recorded for the music and for the video is the
\* duration of the file as the stage left it.
C25_RecordedDurationsMeasured ==
    /\ run.music_meta # NoMeta =>
          run.music_meta.actual_duration = fs.files[run.music_path].dur * TicksPerMs
    /\ run.video_meta # NoMeta =>
          run.video_meta.duration = fs.files[run.video_path].dur * TicksPerMs

\* What holds instead: the video's recorded duration is the duration that was
\* requested, and the music's is the one decoded before the reconciliation.
RecordedDurationsAreEarly ==
    /\ run.video_meta # NoMeta => run.video_meta.duration = run.video_request
    /\ run.music_meta # NoMeta =>
          run.music_meta.requested_duration = run.voiceover_duration

\* C27: the music stage calls adjust_music_duration once the generation has
\* returned and adjust_music_volume after it, on the file the reconciliation
\* left: the music of a stage that returned is that file, within one second
\* of the voiceover, shifted by volume_reduction_db, and nothing was
\* reconciled after the volume step.
C27_ReconcileThenVolume ==
    /\ run.music_ops \in
          {<<>>, <<"generate_music", "adjust_music_duration">>,
           <<"generate_music", "adjust_music_duration", "adjust_music_volume">>}
    /\ Len(run.music_ops) = 2 => caller.stage = "music"
    /\ run.music_meta # NoMeta =>
          /\ Len(run.music_ops) = 3
          /\ run.music_adjusted.gain = 0
          /\ Abs(run.music_adjusted.dur * TicksPerMs - run.voiceover_duration)
                < ToleranceSeconds * TicksPerSecond
          /\ fs.files[run.music_path] = ApplyGain(run.music_adjusted, volume_reduction_db)
          /\ fs.files[run.music_path].gain = volume_reduction_db
          /\ run.music_meta.volume_adjustment = volume_reduction_db

\* C27's case: the music was looped to the voiceover's duration, then made
\* quieter.
C27_Witness ==
    /\ run.music_meta # NoMeta
    /\ run.music_adjusted.copies > 1
    /\ run.music_adjusted.fade > 0
    /\ fs.files[run.music_path].gain = volume_reduction_db
    /\ fs.files[run.music_path].dur = fs.files["voiceover"].dur

\* C28: every wait of a call is PollInterval seconds, and there is exactly
\* one wait between two consecutive status queries.
C28_FixedWaitBetweenPolls ==
    /\ call.waited = PollInterval * call.sleeps
    /\ call.sleeps <= call.polls
    /\ call.polls <= call.sleeps + 1
    /\ call.pc = "poll" => call.polls = call.sleeps
    /\ call.pc \in {"sleep", "fetch"} => call.polls = call.sleeps + 1

\* C28's case: a call has waited before each of its max_attempts polls but
\* the first and is waiting for the last time.
C28_Witness ==
    /\ call.pc = "sleep"
    /\ call.polls = max_attempts
    /\ call.waited = PollInterval * (max_attempts - 1)

\* C29: once a client call has raised, its frame, the count of jobs
\* submitted and the files of the run never change again: no request is
\* sent for the job, and its completion at the service changes nothing.
C29_NoRequestAfterGiveUp ==
    [][call.pc = "raised" =>
          /\ call' = call
          /\ net' = net
          /\ fs' = fs
          /\ run' = run]_vars

\* C29's case: the job completed at the service after the music client had
\* timed out and the run had aborted; no music file exists.
C29_Witness ==
    /\ call.client = "suno"
    /\ call.err.type = "TimeoutError"
    /\ pc = "aborted"
    /\ remote["suno"] = "completed"
    /\ ~Exists(fs, "music")

\* C31: a client call writes the file at its output path only where the
\* status was "completed", a URL was present and the download succeeded, and
\* it writes nothing else; a call that has raised (submission error, HTTP
\* error on a poll or on the download, "failed" status, missing URL, timeout)
\* has left the file system as it found it.
C31_FileWrittenOnlyOnSuccess ==
    /\ [](call.pc \in {"post", "poll", "sleep", "fetch", "raised"} =>
              /\ ~Exists(fs, call.output_path)
              /\ fs.writes[call.output_path] = 0)
    /\ [](call.pc = "returned" =>
              /\ call.status = "completed"
              /\ ~Falsy(call.url)
              /\ call.downloads = 1
              /\ fs.writes[call.output_path] = 1)
    /\ [][CallInProgress =>
              \/ fs' = fs
              \/ /\ call.pc = "fetch"
                 /\ call'.pc = "returned"
                 /\ \A p \in Paths \ {call.output_path} :
                        /\ fs'.files[p] = fs.files[p]
                        /\ fs'.writes[p] = fs.writes[p]]_vars

\* C31's case: the download of the video failed with an HTTP error and the
\* video file does not exist, next to the music an earlier call wrote.
C31_Witness ==
    /\ call.client = "runway"
    /\ call.pc = "raised"
    /\ call.err = Error("HTTPError", "download", "")
    /\ ~Exists(fs, "video")
    /\ fs.writes["video"] = 0
    /\ Exists(fs, "music")

\* C34: the audio track of the muxed and of the final video is cut from the
\* voiceover alone, never from the music; the path of the music appears in
\* the manifest.
C34_FinalAudioFromVoiceoverOnly ==
    /\ \A p \in {"with_audio", "final"} :
          Exists(fs, p) =>
              /\ fs.files[p].audio.kind = "audio"
              /\ fs.files[p].audio.src = fs.files["voiceover"].src
              /\ fs.files[p].audio.src # "suno"
              /\ fs.files[p].audio.gain = 0
    /\ (Exists(fs, "metadata") /\ fs.files["metadata"].kind = "json") =>
          /\ fs.files["metadata"].files.music = run.music_path
          /\ Exists(fs, run.music_path)
          /\ fs.files[run.music_path].src = "suno"

\* C34's case: a run is done, its music is on disk and in the manifest, and
\* the final video carries the voiceover.
C34_Witness ==
    /\ pc = "done"
    /\ fs.files["final"].audio.src = "tts"
    /\ fs.files[run.music_path].src = "suno"
    /\ fs.files[run.music_path].dur > 0
    /\ fs.files["metadata"].files.music = run.music_path

\* The errors the direct calls of create_youtube_short take a client call to
\* end with are the ones the call of the run can end with.
ClientErrorsAreSummarised == call.pc = "raised" => call.err \in ClientCallErrors

NonTerminalStatuses == Statuses \ {"completed", "failed"}

\* C35: after a status other than "completed" and "failed" (a missing one and
\* "cancelled" included) the call waits and polls again; it has fetched and
\* returned nothing, and where it has ended it has ended by the timeout (or by
\* the HTTP error of a later query).
C35_OtherStatusesNonTerminal ==
    call.status \in NonTerminalStatuses =>
        /\ call.pc \in {"sleep", "poll", "raised"}
        /\ call.downloads = 0
        /\ call.returns = 0
        /\ call.pc = "raised" =>
              \/ call.err.type = "TimeoutError" /\ call.polls = max_attempts
              \/ call.err = Error("HTTPError", "status", "")

\* C35's case: a job that was last reported "cancelled" has ended by timeout.
C35_Witness ==
    /\ call.status = "cancelled"
    /\ call.pc = "raised"
    /\ call.err.type = "TimeoutError"
    /\ call.sleeps = max_attempts

\* C36: the call has waited once for each status query that returned a
\* non-terminal status (the wait of the latest one may be about to start); a
\* call that timed out has waited exactly max_attempts times, as often as it
\* has polled, so that one wait follows the final poll.
C36_OneWaitPerNonTerminalPoll ==
    /\ call.pc = "sleep" => call.sleeps + 1 = call.nonterminal
    /\ call.pc # "sleep" => call.sleeps = call.nonterminal
    /\ (call.pc = "raised" /\ call.err.type = "TimeoutError") =>
          /\ call.sleeps = max_attempts
          /\ call.nonterminal = max_attempts
          /\ call.polls = max_attempts
          /\ call.waited = PollInterval * max_attempts

\* C36's case: the video client has timed out after max_attempts waits.
C36_Witness ==
    /\ call.client = "runway"
    /\ call.pc = "raised"
    /\ call.err.type = "TimeoutError"
    /\ call.status = "running"
    /\ call.nonterminal = max_attempts
    /\ call.sleeps = max_attempts

\* C37: when add_audio_to_video or add_text_overlay has returned or raised,
\* every clip it opened is closed.
C37_ClipsClosedAtExit == run.open_clips = {}

\* What holds instead: the clips are closed where the operation returned
\* without looping the audio, and all of them are left open where it raised.
ClipsClosedOnPlainReturn ==
    /\ (InStarted("mux") /\ caller.status = "raised" /\ caller.stage = "mux") =>
          run.open_clips = MuxClips
    /\ (InStarted("overlay") /\ caller.status = "raised" /\ caller.stage = "overlay") =>
          OverlayClips \subseteq run.open_clips
    /\ run.open_clips \subseteq MuxClips \cup OverlayClips
    /\ (pc = "done" /\ fs.files["with_audio"].audio.copies = 1) => run.open_clips = {}

(***************************************************************************)
(* Direct calls of MusicGenerator.adjust_music_duration on a music file of *)
(* any duration of the grid, for any target > 0 of the grid, with and      *)
(* without an output path.                                                 *)
(***************************************************************************)
\* 12 s and 40 s clips, 27.4 s target: the scenarios of the specification
AdjSources == {k * AdjStepMs : k \in 0..AdjMaxSteps} \cup {12000, 40000}
AdjTargets ==
    {t \in {k * AdjStepMs * TicksPerMs + o : k \in 0..AdjMaxSteps, o \in -1..1} : t > 0}
        \cup {27400 * TicksPerMs}
OutputPaths == {None, "adjusted"}

NoResult == [ret |-> None, err |-> NoError, branch |-> "none"]
RunOff ==
    [adapters |-> "source", add_captions |-> FALSE, duration |-> 30, script |-> None,
     actual_duration |-> -1,
     voiceover_duration |-> -1, music_path |-> None, video_path |-> None,
     music_target |-> -1, video_request |-> -1,
     music_ops |-> <<>>, music_adjusted |-> NoFile,
     topic |-> Topic, script_path |-> None,
     script_meta |-> NoMeta, voiceover_meta |-> NoMeta,
     music_meta |-> NoMeta, video_meta |-> NoMeta, open_clips |-> {}]

InitAdjust ==
    /\ pc = "off"
    /\ run = RunOff
    /\ started = <<>>
    /\ finished = <<>>
    /\ caller = Running
    /\ call = IdleCall
    /\ net = [c \in Clients |-> 0]
    /\ remote = [c \in Clients |-> "unknown"]
    /\ \E dur \in AdjSources :
         fs = [EmptyFs EXCEPT !.files["music"] = Audio("suno", dur)]
    /\ \E target \in AdjTargets, output_path \in OutputPaths :
         api = [pc |-> "ready", music_path |-> "music", target |-> target,
                output_path |-> output_path, before |-> fs, result |-> NoResult]

CallAdjustMusicDuration ==
    /\ api.pc = "ready"
    /\ LET r == AdjustMusicDuration(fs, api.music_path, api.target, api.output_path)
       IN  /\ fs' = r.fs
           /\ api' = [api EXCEPT
                        !.pc = IF r.err = NoError THEN "returned" ELSE "raised",
                        !.result = [ret |-> r.ret, err |-> r.err, branch |-> r.branch]]
    /\ UNCHANGED pipeVars

NextAdjust == CallAdjustMusicDuration

SpecAdjust == InitAdjust /\ [][NextAdjust]_vars

(***************************************************************************)
(* Properties of adjust_music_duration, stated on the direct calls.        *)
(***************************************************************************)
ApiDone == api.pc \in {"returned", "raised"}
\* the source clip, its duration in ticks, and the distance to the target
SourceClip == api.before.files[api.music_path]
SourceTicks == SourceClip.dur * TicksPerMs
InBand ==
    /\ SourceTicks - api.target < TicksPerSecond
    /\ api.target - SourceTicks < TicksPerSecond
\* the path the call writes to
OutPath == IF api.output_path = None THEN api.music_path ELSE api.output_path
\* the target in whole ms, and the fade min(3.0, target * 0.1) in whole ms
TargetMs == api.target \div TicksPerMs
ExpectedFadeMs ==
    IF api.target >= 30 * TicksPerSecond THEN 3000
    ELSE api.target \div (10 * TicksPerMs)

\* C6: after a call with a target > 0, the call has returned a path and the
\* duration of the file at that path is within 1.0 s of the target.
C6_ResultWithinOneSecond ==
    (ApiDone /\ api.target > 0) =>
        /\ api.pc = "returned"
        /\ fs.files[api.result.ret].dur * TicksPerMs - api.target < TicksPerSecond
        /\ api.target - fs.files[api.result.ret].dur * TicksPerMs < TicksPerSecond

\* C7: a call whose source is less than 1.0 s from the target returns the
\* input path and leaves every file as it was, written to no path, also
\* when an output path was given.
C7_NoOpInsideBand ==
    (ApiDone /\ InBand) =>
        /\ api.pc = "returned"
        /\ api.result.ret = api.music_path
        /\ api.result.branch = "noop"
        /\ fs = api.before
        /\ \A p \in Paths : fs.writes[p] = 0
        /\ fs.files[api.music_path] = SourceClip
        /\ ~Exists(fs, "adjusted")

\* C7's case: a source 500 ms from the target, with an output path given.
C7_Witness ==
    /\ api.pc = "returned"
    /\ api.output_path = "adjusted"
    /\ SourceTicks # api.target
    /\ InBand
    /\ api.result.branch = "noop"

\* C8: a call whose source is shorter than the target, outside the band,
\* returns; its output is the first target ms of floor(target / current) + 1
\* concatenated copies of the source, which are at least target long.
C8_LoopThenTrimToTarget ==
    (ApiDone /\ ~InBand /\ SourceTicks < api.target) =>
        /\ api.pc = "returned"
        /\ api.result.ret = OutPath
        /\ LET out == fs.files[OutPath]
               repeat == (api.target \div SourceTicks) + 1
           IN  /\ out.copies = repeat
               /\ out.start = 0
               /\ repeat * SourceTicks >= api.target
               /\ out.dur = TargetMs

\* C9: a call whose source is longer than the target, outside the band,
\* returns; its output is the first target ms (to the millisecond) of the
\* one source clip, nothing is concatenated, and the source file is left as
\* it was when another output path was given.
C9_TrimKeepsHead ==
    (ApiDone /\ ~InBand /\ SourceTicks > api.target) =>
        /\ api.pc = "returned"
        /\ api.result.ret = OutPath
        /\ api.result.branch = "trim"
        /\ LET out == fs.files[OutPath]
           IN  /\ out.src = SourceClip.src
               /\ out.start = 0
               /\ out.copies = 1
               /\ out.dur = TargetMs
               /\ out.dur < SourceClip.dur
               /\ out.gain = SourceClip.gain
        /\ fs.writes[OutPath] = 1
        /\ api.output_path = "adjusted" => fs.files[api.music_path] = SourceClip

\* C9's case: the 40 s clip trimmed to 27.4 s.
C9_Witness ==
    /\ api.pc = "returned"
    /\ SourceClip.dur = 40000
    /\ api.target = 27400 * TicksPerMs
    /\ fs.files[OutPath].dur = 27400
    /\ fs.files[OutPath].copies = 1

\* C10: a call outside the band (the trim or loop path) returns an output
\* with a fade-out of min(3.0, target * 0.1) s; a call inside the band
\* leaves the file without any fade.
C10_FadeOnTrimOrLoopOnly ==
    ApiDone =>
        /\ ~InBand =>
              /\ api.pc = "returned"
              /\ fs.files[OutPath].fade = ExpectedFadeMs
        /\ InBand =>
              /\ api.pc = "returned"
              /\ fs.files[api.result.ret].fade = 0

\* Outside an empty source clip the statements of C6, C8 and C10 hold: the
\* division by the source duration is their only failure.
AdjustHoldsForNonEmptySource ==
    SourceClip.dur > 0 =>
        /\ C6_ResultWithinOneSecond
        /\ C8_LoopThenTrimToTarget
        /\ C10_FadeOnTrimOrLoopOnly

\* The failing call: an empty clip and a target of 1.0 s or more.
EmptySourceRaises ==
    (ApiDone /\ SourceClip.dur = 0 /\ api.target >= TicksPerSecond) =>
        /\ api.pc = "raised"
        /\ api.result.err.type = "ZeroDivisionError"
        /\ fs = api.before

\* C32: for every source duration >= 0 and every target > 0 the repeat count
\* is well defined: no call ends in an arithmetic error.
C32_NoArithmeticError ==
    ApiDone => api.result.err.type # "ZeroDivisionError"

(***************************************************************************)
(* adjust_music_duration applied a second time, to the file the first call *)
(* returned and with the same target.                                      *)
(***************************************************************************)
CallAdjustMusicDurationAgain ==
    /\ api.pc = "returned"
    /\ \E output_path \in OutputPaths :
         LET r == AdjustMusicDuration(fs, api.result.ret, api.target, output_path)
         IN  /\ fs' = r.fs
             /\ api' = [pc |-> "again", music_path |-> api.music_path,
                        target |-> api.target, output_path |-> api.output_path,
                        before |-> api.before, result |-> api.result,
                        first |-> fs, again_output_path |-> output_path,
                        second |-> [ret |-> r.ret, err |-> r.err, branch |-> r.branch]]
    /\ UNCHANGED pipeVars

NextTwice == CallAdjustMusicDuration \/ CallAdjustMusicDurationAgain

SpecTwice == InitAdjust /\ [][NextTwice]_vars

\* C33: the second call takes the no-op path: it returns the path it was
\* given and writes nothing, so the clip is not trimmed, looped or faded
\* again.
C33_SecondCallIsNoOp ==
    api.pc = "again" =>
        /\ api.second.branch = "noop"
        /\ api.second.err = NoError
        /\ api.second.ret = api.result.ret
        /\ fs = api.first

\* C33's case: the first call looped a clip to a target that is not a whole
\* number of ms, and the second left the result alone.
C33_Witness ==
    /\ api.pc = "again"
    /\ api.result.branch = "loop"
    /\ api.target % TicksPerMs = 1
    /\ fs.files[api.result.ret].copies > 1
    /\ api.second.branch = "noop"

(***************************************************************************)
(* Direct calls of MusicGenerator.adjust_music_duration with a target that *)
(* is zero or negative.  The function has no check of its target: inside   *)
(* the tolerance band it returns as for any other target; outside it the   *)
(* source is longer than the target and the trim branch hands a            *)
(* non-positive index, then a non-positive fade, to pydub, whose handling  *)
(* of them is not part of the repository: the call either raises pydub's   *)
(* error or exports what the slice yields, an empty clip or the clip       *)
(* without its last ms.                                                    *)
(***************************************************************************)
NonPositiveTargets ==
    {t \in {-(k * AdjStepMs * TicksPerMs) + o : k \in 0..AdjMaxSteps, o \in -1..1} : t <= 0}

\* int(target_duration * 1000) for a target <= 0: int truncates towards zero
IntMsNonPositive(target) == -((-target) \div TicksPerMs)

\* audio[:n] for n <= 0, as pydub may read it
SliceNonPositive(a, n) ==
    {[a EXCEPT !.dur = 0], [a EXCEPT !.dur = IF a.dur + n > 0 THEN a.dur + n ELSE 0]}

InitNonPositive ==
    /\ pc = "off"
    /\ run = RunOff
    /\ started = <<>>
    /\ finished = <<>>
    /\ caller = Running
    /\ call = IdleCall
    /\ net = [c \in Clients |-> 0]
    /\ remote = [c \in Clients |-> "unknown"]
    /\ \E dur \in AdjSources :
         fs = [EmptyFs EXCEPT !.files["music"] = Audio("suno", dur)]
    /\ \E target \in NonPositiveTargets, output_path \in OutputPaths :
         api = [pc |-> "ready", music_path |-> "music", target |-> target,
                output_path |-> output_path, before |-> fs, result |-> NoResult]

CallAdjustNonPositive ==
    /\ api.pc = "ready"
    /\ LET audio == fs.files[api.music_path]
           out == IF Falsy(api.output_path) THEN api.music_path ELSE api.output_path
       IN  IF CloseEnough(audio.dur * TicksPerMs, api.target)
           THEN /\ fs' = fs
                /\ api' = [api EXCEPT !.pc = "returned",
                                      !.result = [ret |-> api.music_path, err |-> NoError,
                                                  branch |-> "noop"]]
           ELSE \/ /\ fs' = fs
                   /\ api' = [api EXCEPT !.pc = "raised",
                                         !.result = [ret |-> None,
                                                     err |-> Error("PydubError", "", ""),
                                                     branch |-> "trim"]]
                \/ \E adjusted \in SliceNonPositive(audio, IntMsNonPositive(api.target)) :
                      /\ fs' = WriteFile(fs, out, adjusted)
                      /\ api' = [api EXCEPT !.pc = "returned",
                                            !.result = [ret |-> out, err |-> NoError,
                                                        branch |-> "trim"]]
    /\ UNCHANGED pipeVars

NextNonPositive == CallAdjustNonPositive

SpecNonPositive == InitNonPositive /\ [][NextNonPositive]_vars

\* C16: a call with a target <= 0 raises InvalidTargetError and writes
\* nothing, whatever the duration of the source.
C16_NonPositiveTargetRejected ==
    (api.pc \in {"returned", "raised"} /\ api.target <= 0) =>
        /\ api.pc = "raised"
        /\ api.result.err.type = "InvalidTargetError"
        /\ fs = api.before

\* What holds instead: no call raises InvalidTargetError, and a call whose
\* source is within one second of the target returns the input path and
\* writes nothing.
NonPositiveTargetAccepted ==
    api.pc \in {"returned", "raised"} =>
        /\ api.result.err.type # "InvalidTargetError"
        /\ (api.before.files[api.music_path].dur * TicksPerMs - api.target < TicksPerSecond) =>
              /\ api.pc = "returned"
              /\ api.result.ret = api.music_path
              /\ fs = api.before

(***************************************************************************)
(* Direct calls of MusicGenerator.adjust_music_volume: a gain of x dB on a *)
(* clip, then a gain of -x dB on the file the first call returned.         *)
(***************************************************************************)
Gains == (-VolMaxDb)..VolMaxDb

InitVolume ==
    /\ pc = "off"
    /\ run = RunOff
    /\ started = <<>>
    /\ finished = <<>>
    /\ caller = Running
    /\ call = IdleCall
    /\ net = [c \in Clients |-> 0]
    /\ remote = [c \in Clients |-> "unknown"]
    /\ \E dur \in {AdjStepMs, AdjStepMs * AdjMaxSteps}, headroom \in 0..VolMaxDb :
         fs = [EmptyFs EXCEPT !.files["music"] =
                                 [Audio("suno", dur) EXCEPT !.peak = -headroom]]
    /\ \E x \in Gains, output_path \in OutputPaths :
         api = [pc |-> "ready", music_path |-> "music", x |-> x,
                output_path |-> output_path, before |-> fs, result |-> NoResult]

\* adjust_music_volume(music_path, x, output_path)
CallAdjustMusicVolume ==
    /\ api.pc = "ready"
    /\ LET r == AdjustMusicVolume(fs, api.music_path, api.x, api.output_path)
       IN  /\ fs' = r.fs
           /\ api' = [api EXCEPT !.pc = "shifted",
                                 !.result = [ret |-> r.ret, err |-> r.err, branch |-> r.branch]]
    /\ UNCHANGED pipeVars

\* adjust_music_volume(the path returned, -x)
CallAdjustMusicVolumeBack ==
    /\ api.pc = "shifted"
    /\ LET r == AdjustMusicVolume(fs, api.result.ret, -api.x, None)
       IN  /\ fs' = r.fs
           /\ api' = [api EXCEPT !.pc = "restored",
                                 !.result = [ret |-> r.ret, err |-> r.err, branch |-> r.branch]]
    /\ UNCHANGED pipeVars

NextVolume == CallAdjustMusicVolume \/ CallAdjustMusicVolumeBack

SpecVolume == InitVolume /\ [][NextVolume]_vars

\* C26: after a gain of x dB and a gain of -x dB the clip has the loudness
\* and the duration it had, and the first gain alone leaves the duration as
\* it was.
C26_VolumeRoundTrip ==
    /\ api.pc \in {"shifted", "restored"} =>
          fs.files[api.result.ret].dur = api.before.files[api.music_path].dur
    /\ api.pc = "restored" =>
          fs.files[api.result.ret].peak = api.before.files[api.music_path].peak

\* The part of C26 that holds: the duration is never changed, and the
\* loudness comes back whenever the gain fits the headroom of the clip; a
\* larger gain leaves the clip quieter than it was by the excess.
VolumeRoundTripWithinHeadroom ==
    LET before == api.before.files[api.music_path]
    IN  /\ api.pc \in {"shifted", "restored"} =>
              /\ fs.files[api.result.ret].dur = before.dur
              /\ fs.files[api.result.ret].src = before.src
        /\ (api.pc = "restored" /\ before.peak + api.x <= 0) =>
              fs.files[api.result.ret].peak = before.peak
        /\ (api.pc = "restored" /\ before.peak + api.x > 0) =>
              fs.files[api.result.ret].peak = before.peak - (before.peak + api.x)
        /\ api.pc = "restored" => fs.files[api.result.ret].gain = 0

(***************************************************************************)
(* The output names of NumRuns runs of create_short that write under the   *)
(* same output directory, started at any times of a clock of               *)
(* ClockTicksPerSecond ticks to the second, each with an output name of    *)
(* its caller or without one.                                              *)
(***************************************************************************)
Runs == 1..NumRuns
OutputNames == {None, "", "short_a", "short_b"}
NoName == <<>>

\* datetime.now().strftime("%Y%m%d_%H%M%S"): the time to the second
Timestamp(now) == now \div ClockTicksPerSecond

\* if not output_name: output_name = f"short_{timestamp}"
OutputName(output_name, now) ==
    IF Falsy(output_name) THEN <<"short", Timestamp(now)>> ELSE <<output_name>>

\* The paths a run writes: one per stage, each made of the output name.
RunPaths(name) ==
    {<<stage_file, name>> :
        stage_file \in {"script.txt", "voiceover.mp3", "music.mp3", "video.mp4",
                        "with_audio.mp4", "final.mp4", "metadata.json"}}

InitNames ==
    /\ pc = "off"
    /\ run = RunOff
    /\ started = <<>>
    /\ finished = <<>>
    /\ caller = Running
    /\ call = IdleCall
    /\ net = [c \in Clients |-> 0]
    /\ remote = [c \in Clients |-> "unknown"]
    /\ fs = EmptyFs
    /\ api = [pc |-> "names", clock |-> 0, given |-> [r \in Runs |-> None],
              names |-> [r \in Runs |-> NoName]]

Tick ==
    /\ api.pc = "names"
    /\ api.clock < MaxClock
    /\ api' = [api EXCEPT !.clock = @ + 1]
    /\ UNCHANGED <<fs, pipeVars>>

\* The entry of create_short in one of the runs
CreateShortNamesRun ==
    /\ api.pc = "names"
    /\ \E r \in Runs, output_name \in OutputNames :
         /\ api.names[r] = NoName
         /\ api' = [api EXCEPT !.given[r] = output_name,
                               !.names[r] = OutputName(output_name, api.clock)]
    /\ UNCHANGED <<fs, pipeVars>>

NextNames == Tick \/ CreateShortNamesRun

SpecNames == InitNames /\ [][NextNames]_vars

\* C23: any two runs that have started write to disjoint sets of paths.
C23_RunsWriteDisjointPaths ==
    \A r1, r2 \in Runs :
        (r1 # r2 /\ api.names[r1] # NoName /\ api.names[r2] # NoName) =>
            RunPaths(api.names[r1]) \cap RunPaths(api.names[r2]) = {}

\* The part of C23 that holds: two runs write to disjoint paths unless their
\* callers gave the same name or both rely on the default name.
DistinctNamesDisjoint ==
    \A r1, r2 \in Runs :
        (r1 # r2 /\ api.names[r1] # NoName /\ api.names[r2] # NoName) =>
            \/ RunPaths(api.names[r1]) \cap RunPaths(api.names[r2]) = {}
            \/ ~Falsy(api.given[r1]) /\ api.given[r1] = api.given[r2]
            \/ Falsy(api.given[r1]) /\ Falsy(api.given[r2])

(***************************************************************************)
(* Direct calls of VideoGenerator.create_youtube_short, for every          *)
(* combination of audio_path, add_captions, caption_text and output_path.  *)
(* The base video goes to "video", the muxed one to "with_audio", the      *)
(* captioned one to "caption_video" (the three files of the temporary      *)
(* directory), the copy to "final".                                        *)
(***************************************************************************)
ShortAudioPaths == {None, "", "voiceover"}
CaptionTexts == {None, "", "a caption"}
ShortOutputPaths == {None, "", "final"}

InitShort ==
    /\ pc = "off"
    /\ run = RunOff
    /\ started = <<>>
    /\ finished = <<>>
    /\ caller = Running
    /\ call = IdleCall
    /\ net = [c \in Clients |-> 0]
    /\ remote = [c \in Clients |-> "unknown"]
    /\ \E dur \in PipeDurations :
         fs = [EmptyFs EXCEPT !.files["voiceover"] = Audio("tts", dur)]
    /\ \E audio_path \in ShortAudioPaths, add_captions \in BOOLEAN,
          caption_text \in CaptionTexts, output_path \in ShortOutputPaths :
         api = [pc |-> "generate", audio_path |-> audio_path,
                add_captions |-> add_captions, caption_text |-> caption_text,
                output_path |-> output_path, current_video_path |-> None,
                steps |-> <<>>, err |-> NoError, result |-> None]

\* video_result = self.generate_video_from_text(...): the call as a whole
ShortGenerateVideo ==
    /\ api.pc = "generate"
    /\ \/ \E e \in ClientCallErrors :
            /\ api' = [api EXCEPT !.pc = "raised", !.err = e]
            /\ UNCHANGED fs
       \/ \E dur \in PipeDurations :
            /\ fs' = WriteFile(fs, "video", Video(dur))
            /\ api' = [api EXCEPT !.pc = "audio", !.current_video_path = "video",
                                  !.steps = Append(@, "generate")]
    /\ UNCHANGED pipeVars

\* if audio_path: current_video_path = self.add_audio_to_video(...)
ShortAddAudio ==
    /\ api.pc = "audio"
    /\ IF ~Falsy(api.audio_path)
       THEN \E write_ok \in BOOLEAN :
              LET r == AddAudioToVideo(fs, api.current_video_path, api.audio_path,
                                       "with_audio", write_ok)
              IN  /\ fs' = r.fs
                  /\ api' = IF r.err = NoError
                            THEN [api EXCEPT !.pc = "captions",
                                             !.current_video_path = r.ret,
                                             !.steps = Append(@, "mux")]
                            ELSE [api EXCEPT !.pc = "raised", !.err = r.err]
       ELSE /\ api' = [api EXCEPT !.pc = "captions"]
            /\ UNCHANGED fs
    /\ UNCHANGED pipeVars

\* if add_captions and caption_text: current_video_path = self.add_text_overlay(...)
ShortAddCaptions ==
    /\ api.pc = "captions"
    /\ IF api.add_captions /\ ~Falsy(api.caption_text)
       THEN \E write_ok \in BOOLEAN :
              LET r == AddTextOverlay(fs, api.current_video_path, api.caption_text,
                                      "caption_video", write_ok)
              IN  /\ fs' = r.fs
                  /\ api' = IF r.err = NoError
                            THEN [api EXCEPT !.pc = "finish",
                                             !.current_video_path = r.ret,
                                             !.steps = Append(@, "overlay")]
                            ELSE [api EXCEPT !.pc = "raised", !.err = r.err]
       ELSE /\ api' = [api EXCEPT !.pc = "finish"]
            /\ UNCHANGED fs
    /\ UNCHANGED pipeVars

\* the dictionary create_youtube_short returns
ShortResult(a, final_path) ==
    [output_path |-> final_path,
     metadata |-> [prompt |-> Topic,
                   has_audio |-> a.audio_path # None,
                   has_captions |-> a.add_captions /\ a.caption_text # None,
                   temp_dir |-> "temp_dir"]]

\* if output_path: shutil.copy(current_video_path, output_path); the return
ShortFinish ==
    /\ api.pc = "finish"
    /\ IF ~Falsy(api.output_path)
       THEN \E copy_ok \in BOOLEAN :
              IF copy_ok
              THEN /\ fs' = WriteFile(fs, api.output_path,
                                      fs.files[api.current_video_path])
                   /\ api' = [api EXCEPT !.pc = "returned",
                                         !.steps = Append(@, "copy"),
                                         !.result = ShortResult(api, api.output_path)]
              ELSE /\ api' = [api EXCEPT !.pc = "raised",
                                         !.err = Error("IOError", "copy", "")]
                   /\ UNCHANGED fs
       ELSE /\ api' = [api EXCEPT !.pc = "returned",
                                  !.result = ShortResult(api, api.current_video_path)]
            /\ UNCHANGED fs
    /\ UNCHANGED pipeVars

NextShort ==
    \/ ShortGenerateVideo
    \/ ShortAddAudio
    \/ ShortAddCaptions
    \/ ShortFinish

SpecShort == InitShort /\ [][NextShort]_vars

Performed(step) == \E i \in 1..Len(api.steps) : api.steps[i] = step

\* C38: in the result of create_youtube_short has_captions is true exactly
\* when the caption overlay was applied and has_audio exactly when the mux
\* step was performed, whatever audio_path, add_captions and caption_text
\* were.
C38_FlagsMatchStepsPerformed ==
    api.pc = "returned" =>
        /\ api.result.metadata.has_captions <=> Performed("overlay")
        /\ api.result.metadata.has_audio <=> Performed("mux")

\* What holds instead: the flags are computed from "is not None" while the
\* steps are guarded by truthiness, so they agree with the steps performed
\* except for an empty audio_path or an empty caption_text.
FlagsMatchStepsForNonEmptyArguments ==
    api.pc = "returned" =>
        /\ api.result.metadata.has_audio = (api.audio_path # None)
        /\ api.result.metadata.has_captions =
               (api.add_captions /\ api.caption_text # None)
        /\ Performed("mux") <=> ~Falsy(api.audio_path)
        /\ Performed("overlay") <=> (api.add_captions /\ ~Falsy(api.caption_text))
        /\ api.audio_path # "" =>
               (api.result.metadata.has_audio <=> Performed("mux"))
        /\ api.caption_text # "" =>
               (api.result.metadata.has_captions <=> Performed("overlay"))
        /\ Performed("mux") <=> fs.writes["with_audio"] = 1
        /\ Performed("overlay") <=> fs.writes["caption_video"] = 1

\* The failing call: captions requested with an empty text.
EmptyCaptionFlagged ==
    (api.pc = "returned" /\ api.add_captions /\ api.caption_text = "") =>
        /\ api.result.metadata.has_captions
        /\ ~Performed("overlay")
        /\ ~Exists(fs, "caption_video")

(***************************************************************************)
(* Direct calls of RytrClient.generate_youtube_shorts_script.              *)
(* generate_content posts one request and returns the decoded body or      *)
(* raises; the body is any JSON value the service may send.                *)
(***************************************************************************)
WordsPerMinute == 150      \* rytr_client.py
SecondsPerMinute == 60     \* rytr_client.py
ScriptCreativity == 4      \* rytr_client.py

Tones == {"engaging", "casual"}
Languages == {"English", "Italian"}
\* durations for which duration_seconds / 60 is exact in binary floating point
ScriptDurations == {15, 30, 45, 60}

\* response.json(): null, a dictionary without "data", or one whose "data" is
\* an empty list, a list whose first entry lacks "text", or a list of texts
Json(kind, has_data, data) == [kind |-> kind, has_data |-> has_data, data |-> data]
NoResponse == Json("unset", FALSE, <<>>)
RytrResponses ==
    {Json("null", FALSE, <<>>), Json("dict", FALSE, <<>>), Json("dict", TRUE, <<>>),
     Json("dict", TRUE, <<[has_text |-> FALSE, text |-> ""]>>),
     Json("dict", TRUE, <<[has_text |-> TRUE, text |-> ScriptText]>>)}

\* what requests.post, raise_for_status and response.json() can raise
ContentErrors ==
    {Error("ConnectionError", "ryte", ""), Error("HTTPError", "ryte", ""),
     Error("JSONDecodeError", "ryte", "")}

\* int((duration_seconds / 60) * 150)
WordCount(duration_seconds) == (duration_seconds * WordsPerMinute) \div SecondsPerMinute

\* the payload of generate_content
ContentRequest(a, use_case) ==
    [use_case |-> use_case, tone |-> a.tone, language |-> a.language,
     creativity_level |-> ScriptCreativity,
     prompt |-> [topic |-> Topic, duration_seconds |-> a.duration_seconds,
                 word_count |-> WordCount(a.duration_seconds)]]

\* The mutant of FallbackUseCase: the fallback repeats the first template.
FallbackUseCaseSame == "video_script"

\* use_case="social_media_post" in the except branch
FallbackUseCase == "social_media_post"

InitRytr ==
    /\ pc = "off"
    /\ run = RunOff
    /\ started = <<>>
    /\ finished = <<>>
    /\ caller = Running
    /\ call = IdleCall
    /\ net = [c \in Clients |-> 0]
    /\ remote = [c \in Clients |-> "unknown"]
    /\ fs = EmptyFs
    /\ \E tone \in Tones, language \in Languages, duration_seconds \in ScriptDurations :
         api = [pc |-> "try", tone |-> tone, language |-> language,
                duration_seconds |-> duration_seconds, attempts |-> <<>>,
                caught |-> NoError, response |-> NoResponse, err |-> NoError, ret |-> None]

\* try: response = self.generate_content(use_case="video_script", ...)
RytrTryVideoScript ==
    /\ api.pc = "try"
    /\ \/ \E e \in ContentErrors :
            api' = [api EXCEPT !.pc = "except", !.caught = e,
                               !.attempts = Append(@, ContentRequest(api, "video_script"))]
       \/ \E response \in RytrResponses :
            api' = [api EXCEPT !.pc = "extract", !.response = response,
                               !.attempts = Append(@, ContentRequest(api, "video_script"))]
    /\ UNCHANGED <<fs, pipeVars>>

\* except Exception: response = self.generate_content(use_case="social_media_post", ...)
RytrFallback ==
    /\ api.pc = "except"
    /\ \/ \E e \in ContentErrors :
            api' = [api EXCEPT !.pc = "raised", !.err = e,
                               !.attempts = Append(@, ContentRequest(api, FallbackUseCase))]
       \/ \E response \in RytrResponses :
            api' = [api EXCEPT !.pc = "extract", !.response = response,
                               !.attempts = Append(@, ContentRequest(api, FallbackUseCase))]
    /\ UNCHANGED <<fs, pipeVars>>

\* `response and "data" in response`
HasData(response) == response.kind = "dict" /\ response.has_data

\* if response and "data" in response: return response["data"][0]["text"]
RytrExtract ==
    /\ api.pc = "extract"
    /\ api' =
         IF ~HasData(api.response)
         THEN [api EXCEPT !.pc = "raised",
                          !.err = Error("Exception",
                                        "Failed to generate YouTube Shorts script", "")]
         ELSE IF api.response.data = <<>>
         THEN [api EXCEPT !.pc = "raised",
                          !.err = Error("IndexError", "list index out of range", "")]
         ELSE IF ~api.response.data[1].has_text
         THEN [api EXCEPT !.pc = "raised", !.err = Error("KeyError", "text", "")]
         ELSE [api EXCEPT !.pc = "returned", !.ret = api.response.data[1].text]
    /\ UNCHANGED <<fs, pipeVars>>

NextRytr == RytrTryVideoScript \/ RytrFallback \/ RytrExtract

SpecRytr == InitRytr /\ [][NextRytr]_vars

\* C39: the first request uses the "video_script" template; after an error
\* of it exactly one more request is made, with "social_media_post" and
\* otherwise the same payload; without an error of the first no second
\* request is made; an error of the second request leaves the call as it is,
\* and a response without data raises, in both cases with no further request.
C39_OneFallbackAttempt ==
    /\ Len(api.attempts) <= 2
    /\ api.pc = "try" <=> api.attempts = <<>>
    /\ Len(api.attempts) >= 1 => api.attempts[1] = ContentRequest(api, "video_script")
    /\ Len(api.attempts) = 2 =>
          /\ api.caught # NoError
          /\ api.attempts[2] = ContentRequest(api, "social_media_post")
    /\ api.pc \in {"extract", "returned", "raised"} =>
          Len(api.attempts) = IF api.caught = NoError THEN 1 ELSE 2
    /\ api.pc = "raised" =>
          \/ api.err \in ContentErrors /\ api.response = NoResponse
                /\ Len(api.attempts) = 2
          \/ api.err.type = "Exception" /\ ~HasData(api.response)
          \/ api.err.type \in {"IndexError", "KeyError"} /\ HasData(api.response)
    /\ api.pc = "returned" =>
          /\ HasData(api.response)
          /\ api.ret = ScriptText

\* C39's case: both requests failed and the error of the second, different
\* from the one that was caught, has left the call.
C39_Witness ==
    /\ api.pc = "raised"
    /\ Len(api.attempts) = 2
    /\ api.attempts[2].use_case = "social_media_post"
    /\ api.caught.type = "HTTPError"
    /\ api.err.type = "ConnectionError"

(***************************************************************************)
(* Direct calls of AudioGenerator.generate_voiceover.  The strings the     *)
(* matching works on (names, label values, criteria values) are sequences  *)
(* of characters, so that lower(), == and `in` are computed as Python      *)
(* computes them.                                                          *)
(***************************************************************************)
MaxVoices == 2             \* length of the voice list the service returns

\* str.lower() on the characters that occur
LowerChar(ch) ==
    CASE ch = "A" -> "a" [] ch = "F" -> "f" [] ch = "M" -> "m" [] ch = "R" -> "r"
      [] OTHER -> ch
Lower(str) == [i \in DOMAIN str |-> LowerChar(str[i])]

\* sub in str
Contains(sub, str) ==
    \E i \in 0..(Len(str) - Len(sub)) : SubSeq(str, i + 1, i + Len(sub)) = sub

Str_male == <<"m", "a", "l", "e">>
Str_female == <<"f", "e", "m", "a", "l", "e">>
Str_Male == <<"M", "a", "l", "e">>
Str_Rachel == <<"R", "a", "c", "h", "e", "l">>
Str_Adam == <<"A", "d", "a", "m">>
Str_adam == <<"a", "d", "a", "m">>
Str_Clone == <<"C", "l", "o", "n", "e">>

\* The voices of the account: two with labels, and a cloned voice without.
VoicePool ==
    {[voice_id |-> "v-rachel", name |-> Str_Rachel, has_labels |-> TRUE,
      gender |-> Str_female],
     [voice_id |-> "v-adam", name |-> Str_Adam, has_labels |-> TRUE, gender |-> Str_male],
     [voice_id |-> "v-clone", name |-> Str_Clone, has_labels |-> FALSE, gender |-> <<>>]}

\* response.json().get("voices", [])
VoiceLists == UNION {[1..n -> VoicePool] : n \in 0..MaxVoices}

\* voice_criteria: None, {}, or a dictionary with one key
NoCriteria == [given |-> "none", key |-> "", value |-> <<>>]
VoiceCriteria ==
    {NoCriteria, [given |-> "empty", key |-> "", value |-> <<>>]}
        \cup {[given |-> "dict", key |-> "gender", value |-> v] :
                 v \in {Str_male, Str_female, Str_Male}}
        \cup {[given |-> "dict", key |-> "name", value |-> v] :
                 v \in {Str_adam, Str_Rachel, Str_male}}

\* voice_id: None, "" or an id, which need not be in the list
VoiceIds == {None, "", "v-given", "v-adam"}

CriteriaGiven(criteria) == criteria.given = "dict"

\* The body of find_voice's loop for one voice: the label keys are compared
\* with `not in`, every other key with !=.
Matches(voice, criteria) ==
    IF criteria.key = "gender" /\ voice.has_labels
    THEN Contains(Lower(criteria.value), Lower(voice.gender))
    ELSE IF criteria.key = "name"
         THEN Lower(voice.name) = Lower(criteria.value)
         ELSE <<>> = Lower(criteria.value)

\* find_voice: the index of the first voice that matches, 0 for None
FindVoice(voices, criteria) ==
    IF \E i \in 1..Len(voices) : Matches(voices[i], criteria)
    THEN CHOOSE i \in 1..Len(voices) :
             /\ Matches(voices[i], criteria)
             /\ \A j \in 1..(i - 1) : ~Matches(voices[j], criteria)
    ELSE 0

Selected(voice_id, voice_name) ==
    [voice_id |-> voice_id, voice_name |-> voice_name, err |-> NoError]
NoVoice == [voice_id |-> None, voice_name |-> <<>>, err |-> NoError]
Str_Unknown == <<"U", "n", "k", "n", "o", "w", "n">>

\* The selection of generate_voiceover, given the voice list
SelectVoice(voices, criteria, voice_id) ==
    IF Falsy(voice_id) /\ CriteriaGiven(criteria)
    THEN LET i == FindVoice(voices, criteria)
         IN  IF i # 0 THEN Selected(voices[i].voice_id, voices[i].name)
             ELSE IF voices # <<>>
                  THEN Selected(voices[1].voice_id, voices[1].name)
                  ELSE [NoVoice EXCEPT !.err = Error("ValueError", "No voices available", "")]
    ELSE IF ~Falsy(voice_id)
         THEN Selected(voice_id,
                       IF \E i \in 1..Len(voices) : voices[i].voice_id = voice_id
                       THEN voices[CHOOSE i \in 1..Len(voices) :
                                       /\ voices[i].voice_id = voice_id
                                       /\ \A j \in 1..(i - 1) :
                                              voices[j].voice_id # voice_id].name
                       ELSE Str_Unknown)
         ELSE IF voices # <<>>
              THEN Selected(voices[1].voice_id, voices[1].name)
              ELSE [NoVoice EXCEPT !.err = Error("ValueError", "No voices available", "")]

InitVoice ==
    /\ pc = "off"
    /\ run = RunOff
    /\ started = <<>>
    /\ finished = <<>>
    /\ caller = Running
    /\ call = IdleCall
    /\ net = [c \in Clients |-> 0]
    /\ remote = [c \in Clients |-> "unknown"]
    /\ fs = EmptyFs
    /\ \E voices \in VoiceLists, criteria \in VoiceCriteria, voice_id \in VoiceIds :
         api = [pc |-> "select", voices |-> voices, voice_criteria |-> criteria,
                voice_id |-> voice_id, selected |-> NoVoice, voice_requests |-> 0,
                speech_requests |-> 0, err |-> NoError, ret |-> None]

\* generate_voiceover up to the speech request: list_voices (one request, the
\* list is cached) and the selection
VoiceSelect ==
    /\ api.pc = "select"
    /\ \E http_ok \in BOOLEAN :
         LET sel == SelectVoice(api.voices, api.voice_criteria, api.voice_id)
         IN  api' = IF ~http_ok
                    THEN [api EXCEPT !.pc = "raised", !.voice_requests = 1,
                                     !.err = Error("HTTPError", "voices", "")]
                    ELSE IF sel.err # NoError
                         THEN [api EXCEPT !.pc = "raised", !.voice_requests = 1,
                                          !.err = sel.err]
                         ELSE [api EXCEPT !.pc = "speech", !.voice_requests = 1,
                                          !.selected = sel]
    /\ UNCHANGED <<fs, pipeVars>>

\* self.client.generate_and_save_speech(voice_id=voice_id, ...) and the return
VoiceSpeech ==
    /\ api.pc = "speech"
    /\ \E ok \in BOOLEAN, dur \in PipeDurations :
         IF ok
         THEN /\ fs' = WriteFile(fs, "voiceover", Audio(api.selected.voice_id, dur))
              /\ api' = [api EXCEPT !.pc = "returned", !.speech_requests = @ + 1,
                                    !.ret = "voiceover"]
         ELSE /\ api' = [api EXCEPT !.pc = "raised", !.speech_requests = @ + 1,
                                    !.err = Error("HTTPError", "text-to-speech", "")]
              /\ UNCHANGED fs
    /\ UNCHANGED pipeVars

NextVoice == VoiceSelect \/ VoiceSpeech

SpecVoice == InitVoice /\ [][NextVoice]_vars

\* A voice has what the criteria ask for: its gender label or its name is the
\* requested value, whatever the case of the letters.
HasRequested(voice, criteria) ==
    IF criteria.key = "gender"
    THEN voice.has_labels /\ Lower(voice.gender) = Lower(criteria.value)
    ELSE Lower(voice.name) = Lower(criteria.value)

VoiceChosen == api.pc \in {"speech", "returned"} \/ api.speech_requests > 0

\* the voice the statement of the selection names for the call
FirstAvailable == api.voices[1].voice_id
FirstRequested ==
    api.voices[CHOOSE i \in 1..Len(api.voices) :
                  /\ HasRequested(api.voices[i], api.voice_criteria)
                  /\ \A j \in 1..(i - 1) :
                         ~HasRequested(api.voices[j], api.voice_criteria)].voice_id

\* C40: an explicit voice_id is the voice of the speech request; without one
\* it is the first voice of the list that has what the criteria ask for; if
\* no voice has it, or no criteria are given, it is the first voice of the
\* list; with an empty list the call fails before any speech request.
C40_VoiceSelection ==
    /\ VoiceChosen =>
          api.selected.voice_id =
              IF ~Falsy(api.voice_id) THEN api.voice_id
              ELSE IF /\ CriteriaGiven(api.voice_criteria)
                      /\ \E i \in 1..Len(api.voices) :
                             HasRequested(api.voices[i], api.voice_criteria)
                   THEN FirstRequested
                   ELSE FirstAvailable
    /\ (Falsy(api.voice_id) /\ api.voices = <<>> /\ api.pc # "select") =>
          /\ api.pc = "raised"
          /\ api.speech_requests = 0

\* What holds instead: the selection is as stated with "matching" read as
\* find_voice computes it, where a label matches when the requested value is
\* a substring of it.
VoiceSelectionAsCoded ==
    /\ VoiceChosen =>
          api.selected.voice_id =
              IF ~Falsy(api.voice_id) THEN api.voice_id
              ELSE IF /\ CriteriaGiven(api.voice_criteria)
                      /\ FindVoice(api.voices, api.voice_criteria) # 0
                   THEN api.voices[FindVoice(api.voices, api.voice_criteria)].voice_id
                   ELSE FirstAvailable
    /\ (Falsy(api.voice_id) /\ api.voices = <<>> /\ api.pc # "select") =>
          /\ api.pc = "raised"
          /\ api.speech_requests = 0
    /\ (\A i \in 1..Len(api.voices) :
           Matches(api.voices[i], api.voice_criteria)
               <=> HasRequested(api.voices[i], api.voice_criteria))
          => C40_VoiceSelection

\* The failing call: a male voice is asked for and the first voice of the
\* list is female.
MaleCriteriaSelectFemale ==
    (/\ VoiceChosen
     /\ Falsy(api.voice_id)
     /\ api.voice_criteria.key = "gender"
     /\ Lower(api.voice_criteria.value) = Str_male
     /\ api.voices # <<>>
     /\ api.voices[1].has_labels
     /\ api.voices[1].gender = Str_female) =>
        api.selected.voice_id = api.voices[1].voice_id

(***************************************************************************)
(* Termination of the client call: the run under weak fairness of its      *)
(* steps (each statement of a running call is eventually executed).        *)
(***************************************************************************)
FairSpec == Spec /\ WF_vars(Next)

CallEnded == call.pc \in {"idle", "returned", "raised"}

\* C30: a client call that has started ends, by returning or by raising,
\* and never makes more than max_attempts status queries.
C30_CallTerminates ==
    /\ [](call.polls <= max_attempts)
    /\ (call.pc = "post") ~> CallEnded

\* C30's case: a call has ended by returning after an HTTP-clean sequence of
\* max_attempts - 1 non-terminal statuses and a completed one.
C30_Witness ==
    /\ call.client = "suno"
    /\ call.pc = "returned"
    /\ call.polls = max_attempts
    /\ call.sleeps = max_attempts - 1
    /\ Exists(fs, "music")

====
